---- MODULE Spec2Model ----
(***************************************************************************)
(* A model of the SDP solver core: constraint assembly and state           *)
(* construction (utils/ecc_helpers.py), the SpecBM outer transition and    *)
(* the APGD bundle-subproblem loop (solver/specbm.py).                     *)
(*                                                                         *)
(* Real numbers are exact rationals <<num, den>> (den > 0, lowest terms).  *)
(* Python indices are kept 0-based as values; TLA+ sequences are 1-based,  *)
(* so entry i of a Python array a is a[i+1] here.                          *)
(***************************************************************************)
EXTENDS Integers, Sequences, FiniteSets, TLC

\* ------------------------------------------------------------------------
\* Bounds of the model (not program constants)
\* ------------------------------------------------------------------------
\* largest number of variables an SDP state may grow to
MaxN == 3
\* largest number of stored entries of the sparse cost matrix C
MaxNnz == 2

\* ------------------------------------------------------------------------
\* Exact rational arithmetic
\* ------------------------------------------------------------------------
\* The({body : v \in {e}}) is body with v standing for the value of e,
\* evaluated once (read such a chain of bindings from its last line up);
\* Tup(f) is the sequence f with its entries evaluated.  The arithmetic
\* below is carried by functions (RAddFn, ...), which take their arguments
\* by value; the operators of the same names apply them.
The(S) == CHOOSE r \in S : TRUE
Tup(f) == <<>> \o f

Abs(x) == IF x < 0 THEN -x ELSE x

RECURSIVE GCD(_, _)
GCD(a, b) == IF b = 0 THEN a ELSE GCD(b, a % b)

Rats == Int \X Int

Reduced(n, d, g) == IF n = 0 THEN <<0, 1>> ELSE IF d < 0 THEN <<(-n) \div g, (-d) \div g>> ELSE <<n \div g, d \div g>>
RatFn == [n \in Int, d \in Int |-> Reduced(n, d, GCD(Abs(n), Abs(d)))]
Rat(num, den) == RatFn[num, den]

RInt(k) == <<k, 1>>
RZero == <<0, 1>>
ROne == <<1, 1>>
\* sums and products cancel common factors before multiplying, which keeps
\* the intermediate integers small
RAddCancelled(a, b, g) == RatFn[a[1] * (b[2] \div g) + b[1] * (a[2] \div g), (a[2] \div g) * b[2]]
RAddFn == [a \in Rats, b \in Rats |-> RAddCancelled(a, b, GCD(a[2], b[2]))]
RAdd(x, y) == RAddFn[x, y]
RNegFn == [a \in Rats |-> <<-a[1], a[2]>>]
RNeg(x) == RNegFn[x]
RSub(x, y) == RAddFn[x, RNegFn[y]]
RMulCancelled(a, b, g1, g2) == RatFn[(a[1] \div g1) * (b[1] \div g2), (a[2] \div g2) * (b[2] \div g1)]
RMulFn == [a \in Rats, b \in Rats |-> RMulCancelled(a, b, GCD(Abs(a[1]), b[2]), GCD(Abs(b[1]), a[2]))]
RMul(x, y) == RMulFn[x, y]
RDivFn == [a \in Rats, b \in Rats |-> RMulFn[a, RatFn[b[2], b[1]]]]
RDiv(x, y) == RDivFn[x, y]
RLe(x, y) == RSub(y, x)[1] >= 0
RLt(x, y) == RSub(y, x)[1] > 0
RAbsFn == [a \in Rats |-> <<Abs(a[1]), a[2]>>]
RAbs(x) == RAbsFn[x]
RMaxFn == [a \in Rats, b \in Rats |-> IF RAddFn[b, RNegFn[a]][1] >= 0 THEN b ELSE a]
RMax(x, y) == RMaxFn[x, y]

\* ------------------------------------------------------------------------
\* Sequence helpers
\* ------------------------------------------------------------------------
Full(len, v) == [i \in 1..len |-> v]

RECURSIVE SeqsUpTo(_, _)
SeqsUpTo(S, len) ==
    IF len = 0 THEN {<<>>}
    ELSE LET shorter == SeqsUpTo(S, len - 1)
         IN  shorter \cup {Append(s, x) : s \in {t \in shorter : Len(t) = len - 1}, x \in S}

RECURSIVE Concat(_)
Concat(ss) == IF Len(ss) = 0 THEN <<>> ELSE Head(ss) \o Concat(Tail(ss))

\* ------------------------------------------------------------------------
\* Constraint assembly and state construction (utils/ecc_helpers.py)
\* ------------------------------------------------------------------------
VARIABLES
    asm_pc,          \* "idle" | "start" | "ready" | "failed"
    C,               \* the sparse cost matrix: [n, indices] (stored entries <<row, col>>)
    problem_data,    \* what get_all_problem_data returned to initialize_state
    sdp_state,       \* the SDPState record last returned
    mixed_var_map,   \* pair_idx -> auxiliary constraint ids (a list per hyperplane)
    asm_call         \* the last call: its name, arguments, the old state and the outcome

asmVars == <<asm_pc, C, problem_data, sdp_state, mixed_var_map, asm_call>>

\* specbm: position of the driver, the arguments of the call, the three
\* states the driver holds and the locals of the two body_func calls behind
\* state1 and state2
VARIABLES bm_pc, bm_args, bm_init_state, state1, state2, locals1, locals2, eig_calls, transitions

bmVars == <<bm_pc, bm_args, bm_init_state, state1, state2, locals1, locals2, eig_calls, transitions>>

\* solve_subproblem: position of the loop, its arguments, the loop state,
\* the number of passes made and the returned pair
VARIABLES apgd_pc, apgd_args, apgd_sub, loop_apgd_state, apgd_steps, apgd_ret

apgdVars == <<apgd_pc, apgd_args, apgd_sub, loop_apgd_state, apgd_steps, apgd_ret>>

\* proj_simplex called on its own: position, argument and result
VARIABLES proj_pc, proj_in, proj_out

projVars == <<proj_pc, proj_in, proj_out>>

\* approx_k_min_eigen: position, arguments (with the start vector drawn
\* from rng), the state of the tridiagonalization loop, the number of
\* passes made and the locals at the end of the call
VARIABLES lan_pc, lan_args, lan_state, lan_iters, lan_locals

lanVars == <<lan_pc, lan_args, lan_state, lan_iters, lan_locals>>

\* cgal: position, arguments, the state of its loop and the number of
\* passes made
VARIABLES cgal_pc, cgal_args, cgal_state, cgal_iters

cgalVars == <<cgal_pc, cgal_args, cgal_state, cgal_iters>>

\* scripts/warm_start_qap_specbm.py between its two solves: position, the
\* inputs (what the loaders and the first solve handed over), the state of
\* fill_constraint_index_map, and the carried quantities with the scale
\* factors in force
VARIABLES ws_pc, ws_args, ws_fill, ws_vals

wsVars == <<ws_pc, ws_args, ws_fill, ws_vals>>

\* the variables of the computations modelled further down, and for each
\* of these computations the variables of all the others
laterVars == <<projVars, lanVars, cgalVars, wsVars>>
notProj == <<asmVars, bmVars, apgdVars, lanVars, cgalVars, wsVars>>
notLan == <<asmVars, bmVars, apgdVars, projVars, cgalVars, wsVars>>
notCgal == <<asmVars, bmVars, apgdVars, projVars, lanVars, wsVars>>
notWs == <<asmVars, bmVars, apgdVars, projVars, lanVars, cgalVars>>

Unset == [unset |-> TRUE]

BMIdle ==
    /\ bm_pc = "idle"
    /\ bm_args = Unset
    /\ bm_init_state = Unset
    /\ state1 = Unset
    /\ state2 = Unset
    /\ locals1 = Unset
    /\ locals2 = Unset
    /\ eig_calls = 0
    /\ transitions = 0

APGDIdle ==
    /\ apgd_pc = "idle"
    /\ apgd_args = Unset
    /\ apgd_sub = Unset
    /\ loop_apgd_state = Unset
    /\ apgd_steps = 0
    /\ apgd_ret = Unset

ProjIdle ==
    /\ proj_pc = "idle"
    /\ proj_in = Unset
    /\ proj_out = Unset

LanIdle ==
    /\ lan_pc = "idle"
    /\ lan_args = Unset
    /\ lan_state = Unset
    /\ lan_iters = 0
    /\ lan_locals = Unset

CgalIdle ==
    /\ cgal_pc = "idle"
    /\ cgal_args = Unset
    /\ cgal_state = Unset
    /\ cgal_iters = 0

WsIdle ==
    /\ ws_pc = "idle"
    /\ ws_args = Unset
    /\ ws_fill = Unset
    /\ ws_vals = Unset

LaterIdle == ProjIdle /\ LanIdle /\ CgalIdle /\ WsIdle

AsmIdle ==
    /\ asm_pc = "idle"
    /\ C = Unset
    /\ problem_data = Unset
    /\ sdp_state = Unset
    /\ mixed_var_map = <<>>
    /\ asm_call = Unset

\* a matrix is carried by its shape and the way its entries were produced
None == [rows |-> 0, cols |-> 0, val |-> "None"]
Matrix(r, c, v) == [rows |-> r, cols |-> c, val |-> v]

NoData == [A_data |-> <<>>, A_indices |-> <<>>, b |-> <<>>, b_ineq_mask |-> <<>>]

NoState == [C |-> [n |-> 0, indices |-> <<>>],
            A_indices |-> <<>>, A_data |-> <<>>, b |-> <<>>, b_ineq_mask |-> <<>>,
            X |-> None, P |-> None, Omega |-> None,
            y |-> <<>>, z |-> None, tr_X |-> "0", primal_obj |-> "0",
            SCALE_C |-> "none", SCALE_X |-> ROne, SCALE_A |-> <<>>]

\* what a call's record keeps of the state it was given
OldSummary(st) == [n |-> st.C.n, m |-> Len(st.b), y |-> st.y, SCALE_X |-> st.SCALE_X,
                   X |-> st.X, P |-> st.P, Omega |-> st.Omega, A_indices |-> st.A_indices]

NoCall == [op |-> "none", sketch_dim |-> -1, ortho_indices |-> <<>>,
           sum_gt_one_constraints |-> <<>>, constraint_scale_factor |-> ROne,
           old |-> OldSummary(NoState), err |-> "none"]

\* a mirroring that forgets to swap the row and the column
MirrorUnswapped(triples) == triples

\* constraint_triples[:, [0, 2, 1]]: the row and column of every triple swapped
Mirror(triples) == [r \in 1..Len(triples) |-> <<triples[r][1], triples[r][3], triples[r][2]>>]

\* a mask that leaves out the diagonal entries
TriuIndicesStrict(Cmat) == SelectSeq(Cmat.indices, LAMBDA e : e[1] < e[2])

\* C.indices[triu_indices_mask]: the stored entries on or above the diagonal
TriuIndices(Cmat) == SelectSeq(Cmat.indices, LAMBDA e : e[1] <= e[2])

get_all_problem_data(Cmat) ==
    LET n == Cmat.n
        triu == TriuIndices(Cmat)
        k == Len(triu)
        \* jnp.hstack(3*[range_n]): constraint i is the single triple (i, i, i)
        diag_triples == [i \in 1..n |-> <<i - 1, i - 1, i - 1>>]
        \* constraint_indices = b.shape[0] + arange(sum(mask))
        constraint_triples == [r \in 1..k |-> <<n + (r - 1), triu[r][1], triu[r][2]>>]
        both == constraint_triples \o Mirror(constraint_triples)
    IN  [A_data      |-> Full(n, ROne) \o Full(Len(both), Rat(-1, 2)),
         A_indices   |-> diag_triples \o both,
         b           |-> Full(n, ROne) \o Full(k, RZero),
         b_ineq_mask |-> Full(n, 0) \o Full(k, 1)]

\* SCALE_A.at[A_indices[:, 0]].get(): the factor of the constraint a triple belongs
\* to (a gather clamps an index past the end to the last entry)
RowScale(st, r) ==
    LET c == st.A_indices[r][1] + 1
    IN  st.SCALE_A[IF c > Len(st.SCALE_A) THEN Len(st.SCALE_A) ELSE c]

\* utils.common.scale_sdp_state: every constraint row c is multiplied by
\* SCALE_A[c] and the right-hand side by SCALE_X * SCALE_A (X, P, z, tr_X and
\* primal_obj are carried by shape and provenance, which scaling leaves alone)
scale_sdp_state(st) ==
    [st EXCEPT
        !.A_data = [r \in 1..Len(st.A_data) |->
                        RMul(st.A_data[r], RowScale(st, r))],
        !.b = [i \in 1..Len(st.b) |-> RMul(st.b[i], RMul(st.SCALE_X, st.SCALE_A[i]))]]

\* utils.common.unscale_sdp_state: the inverse of scale_sdp_state
unscale_sdp_state(st) ==
    [st EXCEPT
        !.A_data = [r \in 1..Len(st.A_data) |->
                        RDiv(st.A_data[r], RowScale(st, r))],
        !.b = [i \in 1..Len(st.b) |-> RDiv(st.b[i], RMul(st.SCALE_X, st.SCALE_A[i]))]]

\* a switch that lets the rank 0 through
SketchDimValidFromZero(sketch_dim) == sketch_dim = -1 \/ sketch_dim >= 0

\* the sketch_dim switch shared by initialize_state and cold_start_add_constraint:
\* -1 is dense mode, a positive value the sketch rank, anything else is refused
SketchDimValid(sketch_dim) == sketch_dim = -1 \/ sketch_dim > 0

\* a dense X allocated whatever the mode
PrimalXInEveryMode(n, sketch_dim) == Matrix(n, n, "zeros")

PrimalX(n, sketch_dim) == IF sketch_dim = -1 THEN Matrix(n, n, "zeros") ELSE None
PrimalOmega(n, sketch_dim) == IF sketch_dim > 0 THEN Matrix(n, sketch_dim, "normal") ELSE None
PrimalP(n, sketch_dim) == IF sketch_dim > 0 THEN Matrix(n, sketch_dim, "zeros") ELSE None

\* the fresh SDPState both constructors build before scaling it
FreshState(Cmat, pd, sketch_dim) ==
    LET n == Cmat.n
        m == Len(pd.b)
    IN  [C |-> Cmat,
         A_indices |-> pd.A_indices, A_data |-> pd.A_data,
         b |-> pd.b, b_ineq_mask |-> pd.b_ineq_mask,
         X |-> PrimalX(n, sketch_dim),
         P |-> PrimalP(n, sketch_dim),
         Omega |-> PrimalOmega(n, sketch_dim),
         y |-> Full(m, RZero), z |-> Matrix(m, 1, "zeros"),
         tr_X |-> "0", primal_obj |-> "0",
         SCALE_C |-> "1/norm(C.data)", SCALE_X |-> Rat(1, n),
         SCALE_A |-> Full(m, ROne)]

initialize_state(sketch_dim) ==
    /\ asm_pc = "start"
    /\ LET pd == get_all_problem_data(C)
       IN  /\ problem_data' = pd
           /\ asm_call' = [NoCall EXCEPT !.op = "initialize_state",
                                         !.sketch_dim = sketch_dim,
                                         !.err = IF SketchDimValid(sketch_dim)
                                                 THEN "none" ELSE "ValueError"]
           /\ IF SketchDimValid(sketch_dim)
              THEN /\ sdp_state' = scale_sdp_state(FreshState(C, pd, sketch_dim))
                   /\ asm_pc' = "ready"
              ELSE /\ sdp_state' = sdp_state
                   /\ asm_pc' = "failed"
    /\ UNCHANGED <<C, mixed_var_map>>

\* [(pair_idx, u, v) for pair_idx, pairs in enumerate(groups) for u, v in pairs]
RECURSIVE FlatPairs(_, _)
FlatPairs(groups, pair_idx) ==
    IF Len(groups) = 0 THEN <<>>
    ELSE [r \in 1..Len(Head(groups)) |-> <<pair_idx, Head(groups)[r][1], Head(groups)[r][2]>>]
         \o FlatPairs(Tail(groups), pair_idx + 1)

\* mixed_var_tuples: the pairs of the groups that hold more than one pair
MixedVarTuples(groups) ==
    SelectSeq(FlatPairs(groups, 0), LAMBDA t : Len(groups[t[1] + 1]) > 1)

\* mixed_var_map[pair_idx].append(b.shape[0] + i), i the position in mixed_var_tuples
MixedVarMap(groups, base) ==
    LET mixed == MixedVarTuples(groups)
        Ids(g) == SelectSeq([i \in 1..Len(mixed) |-> i - 1], LAMBDA i : mixed[i + 1][1] = g)
    IN  [g \in 1..Len(groups) |-> [r \in 1..Len(Ids(g - 1)) |-> base + Ids(g - 1)[r]]]

\* The constraint data both add-constraint functions build from the unscaled old
\* state: the diagonal constraint of the added variable, the orthogonality
\* constraints, the sum-greater-than-one constraints and the mixed constraints.
\* jnp.array of an empty list is one-dimensional, so mirroring its columns
\* raises IndexError: ok is FALSE then.
AddConstraintData(old, ortho_indices, sum_gt_one_constraints) ==
    LET old_m == Len(old.b)
        n == old.C.n + 1
        A_indices1 == Append(old.A_indices, <<old_m, n - 1, n - 1>>)
        A_data1 == Append(old.A_data, ROne)
        b1 == Append(old.b, ROne)
        mask1 == Append(old.b_ineq_mask, 0)
        \* orthogonality constraints
        num_ortho == Len(ortho_indices)
        ortho_triples == [i \in 1..num_ortho |->
                            <<Len(b1) + (i - 1), ortho_indices[i][1], ortho_indices[i][2]>>]
        ortho_both == ortho_triples \o Mirror(ortho_triples)
        A_indices2 == A_indices1 \o ortho_both
        A_data2 == A_data1 \o Full(Len(ortho_both), ROne)
        b2 == b1 \o Full(num_ortho, RZero)
        mask2 == mask1 \o Full(num_ortho, 1)
        \* sum greater than one constraints
        num_hyperplanes == Len(sum_gt_one_constraints)
        flat == FlatPairs(sum_gt_one_constraints, 0)
        sum_triples == [r \in 1..Len(flat) |-> <<Len(b2) + flat[r][1], flat[r][2], flat[r][3]>>]
        sum_both == sum_triples \o Mirror(sum_triples)
        A_indices3 == A_indices2 \o sum_both
        A_data3 == A_data2 \o Full(Len(sum_both), Rat(-1, 2))
        b3 == b2 \o Full(num_hyperplanes, RInt(-1))
        mask3 == mask2 \o Full(num_hyperplanes, 1)
        \* mixed constraints
        mixed == MixedVarTuples(sum_gt_one_constraints)
        mixed_triples == [i \in 1..Len(mixed) |-> <<Len(b3) + (i - 1), mixed[i][2], mixed[i][3]>>]
        mixed_both == mixed_triples \o Mirror(mixed_triples)
    IN  [ok |-> Len(flat) > 0 /\ Len(mixed) > 0,
         A_indices |-> A_indices3 \o mixed_both,
         A_data |-> A_data3 \o Full(Len(mixed_both), Rat(-1, 2)),
         b |-> b3 \o Full(num_hyperplanes, RZero),
         b_ineq_mask |-> mask3 \o Full(num_hyperplanes, 1),
         mixed_var_map |-> MixedVarMap(sum_gt_one_constraints, Len(b3))]

\* BCOO((old.C.data, old.C.indices), shape=(n, n)): the same entries, one more row/col
GrowC(old) == [n |-> old.C.n + 1, indices |-> old.C.indices]

cold_start_add_constraint(ortho_indices, sum_gt_one_constraints, sketch_dim) ==
    /\ asm_pc = "ready"
    /\ sdp_state.C.n < MaxN
    /\ \E old \in {unscale_sdp_state(sdp_state)} :
       \E d \in {AddConstraintData(old, ortho_indices, sum_gt_one_constraints)} :
       LET err == IF ~d.ok THEN "IndexError"
                  ELSE IF ~SketchDimValid(sketch_dim) THEN "ValueError" ELSE "none"
       IN  /\ asm_call' = [op |-> "cold_start_add_constraint",
                           sketch_dim |-> sketch_dim,
                           ortho_indices |-> ortho_indices,
                           sum_gt_one_constraints |-> sum_gt_one_constraints,
                           constraint_scale_factor |-> ROne,
                           old |-> OldSummary(sdp_state), err |-> err]
           /\ IF err = "none"
              THEN /\ sdp_state' = scale_sdp_state(FreshState(GrowC(old), d, sketch_dim))
                   /\ mixed_var_map' = d.mixed_var_map
                   /\ asm_pc' = "ready"
              ELSE /\ UNCHANGED <<sdp_state, mixed_var_map>>
                   /\ asm_pc' = "failed"
    /\ UNCHANGED <<C, problem_data>>

\* ecc_points: pairs[1] of every pair of every hyperplane; neg_points: the first
\* member of every orthogonality pair
EccPoints(sum_gt_one_constraints) ==
    {t[3] : t \in {FlatPairs(sum_gt_one_constraints, 0)[r] :
                        r \in 1..Len(FlatPairs(sum_gt_one_constraints, 0))}}
NegPoints(ortho_indices) == {ortho_indices[i][1] : i \in 1..Len(ortho_indices)}

\* the old duals in the first entries, without the factor of line 321
WarmStartDualUnscaled(old, m, SCALE_X) == [i \in 1..m |-> IF i <= Len(old.b) THEN old.y[i] ELSE RZero]

\* lines 319 to 321: zeros of size m, the old duals in the first old_m
\* entries, all multiplied by SCALE_X / old SCALE_X
WarmStartDual(old, m, SCALE_X) ==
    [i \in 1..m |-> RMul(IF i <= Len(old.b) THEN old.y[i] ELSE RZero, RDiv(SCALE_X, old.SCALE_X))]

warm_start_add_constraint(ortho_indices, sum_gt_one_constraints, constraint_scale_factor, sketch_dim) ==
    /\ asm_pc = "ready"
    /\ sdp_state.C.n < MaxN
    /\ \E old \in {unscale_sdp_state(sdp_state)} :
       \E d \in {AddConstraintData(old, ortho_indices, sum_gt_one_constraints)} :
       \E ecc_points \in {EccPoints(sum_gt_one_constraints)} :
       \E neg_points \in {NegPoints(ortho_indices)} :
       LET old_m == Len(old.b)
           n == old.C.n + 1
           m == Len(d.b)
           dense == old.X # None
           sketch == old.P # None
           \* jax.random.normal refuses a negative dimension
           err == IF ~d.ok THEN "IndexError"
                  ELSE IF sketch /\ sketch_dim < 0 THEN "ShapeError"
                  ELSE IF ~dense /\ ~sketch THEN "NameError" ELSE "none"
           SCALE_X == Rat(1, n)
           SCALE_A == [i \in 1..m |->
                          IF i - 1 \in ecc_points \cup neg_points THEN constraint_scale_factor
                          ELSE IF i <= old_m THEN ROne ELSE constraint_scale_factor]
           y == WarmStartDual(old, m, SCALE_X)
           st == [C |-> GrowC(old),
                  A_indices |-> d.A_indices, A_data |-> d.A_data,
                  b |-> d.b, b_ineq_mask |-> d.b_ineq_mask,
                  X |-> IF dense THEN Matrix(n, n, "embeds") ELSE old.X,
                  P |-> IF sketch THEN Matrix(n, sketch_dim, "embeds") ELSE old.P,
                  Omega |-> IF sketch THEN Matrix(n, sketch_dim, "normal") ELSE old.Omega,
                  y |-> y, z |-> Matrix(m, 1, "A(X)"),
                  tr_X |-> "trace", primal_obj |-> "<C,X>",
                  SCALE_C |-> "1/norm(C.data)", SCALE_X |-> SCALE_X, SCALE_A |-> SCALE_A]
       IN  /\ asm_call' = [op |-> "warm_start_add_constraint",
                           sketch_dim |-> sketch_dim,
                           ortho_indices |-> ortho_indices,
                           sum_gt_one_constraints |-> sum_gt_one_constraints,
                           constraint_scale_factor |-> constraint_scale_factor,
                           old |-> OldSummary(sdp_state), err |-> err,
                           unscaled |-> OldSummary(old), y |-> y]
           /\ IF err = "none"
              THEN /\ sdp_state' = scale_sdp_state(st)
                   /\ mixed_var_map' = d.mixed_var_map
                   /\ asm_pc' = "ready"
              ELSE /\ UNCHANGED <<sdp_state, mixed_var_map>>
                   /\ asm_pc' = "failed"
    /\ UNCHANGED <<C, problem_data>>

\* a solve between two assembly calls (specbm, called with the fields of
\* the state): it leaves the problem alone and returns new duals, here v
\* times 1, 2, ..., m
solve(v) ==
    /\ asm_pc = "ready"
    /\ asm_call.op # "solve"
    /\ sdp_state' = [sdp_state EXCEPT !.y = [i \in 1..Len(sdp_state.b) |-> RMul(v, RInt(i))]]
    /\ asm_call' = [NoCall EXCEPT !.op = "solve"]
    /\ UNCHANGED <<asm_pc, C, problem_data, mixed_var_map>>

\* ---- inputs of the assembly calls ----
SketchDims == {-2, -1, 0, 1}

\* the stored entries a cost matrix is drawn from: one on the diagonal, one
\* above it and one below it
CEntries(n) == {<<0, 0>>, <<0, n - 1>>, <<n - 1, 0>>}

\* cost matrices over the last two sizes below MaxN, so that a state can grow
\* once or twice
CostMatrices ==
    UNION {{[n |-> n, indices |-> ix] : ix \in SeqsUpTo(CEntries(n), MaxNnz)} :
                n \in {k \in {MaxN - 2, MaxN - 1} : k >= 1}}

\* the sizes of the hyperplane groups of one add-constraint call
GroupSizeChoices ==
    {<<>>, <<1>>, <<2>>, <<1, 2>>, <<2, 1>>, <<3>>}

\* hyperplane groups of the given sizes: pair r of group g links the added
\* variable n-1 to the point (g + r) mod n
Groups(n, sizes) ==
    [g \in 1..Len(sizes) |-> [r \in 1..sizes[g] |-> <<n - 1, (g + r) % n>>]]

SumGtOneChoices(n) == {Groups(n, sizes) : sizes \in GroupSizeChoices}

\* no orthogonality pair, or the pair of point 0 with the added variable
OrthoChoices(n) == {<<>>, << <<0, n - 1>> >>}

InitAsm ==
    /\ asm_pc = "start"
    /\ C \in CostMatrices
    /\ problem_data = NoData
    /\ sdp_state = NoState
    /\ mixed_var_map = <<>>
    /\ asm_call = NoCall
    /\ BMIdle
    /\ APGDIdle
    /\ LaterIdle

NextAsm ==
    \/ /\ UNCHANGED <<bmVars, apgdVars, laterVars>>
       /\ \E sketch_dim \in SketchDims : initialize_state(sketch_dim)
    \/ /\ asm_pc = "ready"
       /\ UNCHANGED <<bmVars, apgdVars, laterVars>>
       /\ \E sgo \in SumGtOneChoices(sdp_state.C.n + 1) :
            \E ortho \in OrthoChoices(sdp_state.C.n + 1) :
              \E sketch_dim \in SketchDims :
                cold_start_add_constraint(ortho, sgo, sketch_dim)
    \/ /\ asm_pc = "ready"
       /\ UNCHANGED <<bmVars, apgdVars, laterVars>>
       /\ \E sgo \in SumGtOneChoices(sdp_state.C.n + 1) :
            \E ortho \in OrthoChoices(sdp_state.C.n + 1) :
              \E sketch_dim \in {-1, 1} :
                warm_start_add_constraint(ortho, sgo, RInt(2), sketch_dim)
    \/ /\ UNCHANGED <<bmVars, apgdVars, laterVars>>
       /\ \E v \in {Rat(-1, 2)} : solve(v)

vars == <<asmVars, bmVars, apgdVars, laterVars>>

SpecAsm == InitAsm /\ [][NextAsm]_vars

\* ------------------------------------------------------------------------
\* Properties of constraint assembly and state construction
\* ------------------------------------------------------------------------
TriplesOf(A_indices, c) == {r \in 1..Len(A_indices) : A_indices[r][1] = c}

MirrorComplete(A_indices, A_data) ==
    \A r \in 1..Len(A_indices) :
        A_indices[r][2] # A_indices[r][3] =>
            \E q \in 1..Len(A_indices) :
                /\ A_indices[q] = <<A_indices[r][1], A_indices[r][3], A_indices[r][2]>>
                /\ A_data[q] = A_data[r]

HasOffDiagonal(A_indices) == \E r \in 1..Len(A_indices) : A_indices[r][2] # A_indices[r][3]

\* C1: every off-diagonal constraint triple (c, i, j) of the operator assembled
\* by get_all_problem_data, and of the operator a state holds after
\* initialize_state, cold_start_add_constraint or warm_start_add_constraint, has
\* a mirrored triple (c, j, i) with the same coefficient.
C1_Symmetry ==
    /\ MirrorComplete(problem_data.A_indices, problem_data.A_data)
    /\ MirrorComplete(sdp_state.A_indices, sdp_state.A_data)

\* C1 witness: an operator with off-diagonal cost triples has been extended with
\* an orthogonality pair and rescaled by warm_start_add_constraint.
C1_Witness ==
    /\ asm_pc = "ready"
    /\ asm_call.op = "warm_start_add_constraint"
    /\ Len(asm_call.ortho_indices) > 0
    /\ HasOffDiagonal(problem_data.A_indices)
    /\ \E r \in 1..Len(sdp_state.A_indices) :
          /\ sdp_state.A_indices[r][1] >= asm_call.old.m
          /\ sdp_state.A_indices[r][2] # sdp_state.A_indices[r][3]

\* the positions of the stored entries of C on or above the diagonal, and the
\* rank of such a position among them
UpperPositions == {p \in 1..Len(C.indices) : C.indices[p][1] <= C.indices[p][2]}
UpperRank(p) == Cardinality({q \in UpperPositions : q <= p})

\* C2: get_all_problem_data emits n diagonal-equals-one equality constraints
\* (constraint i is the single triple (i, i, i) with coefficient 1, b = 1, mask 0)
\* followed by one inequality constraint per stored entry (i, j), i <= j, of C,
\* with the fresh ids n, n+1, ..., coefficient -1/2 on (i, j) and on (j, i),
\* b = 0 and mask 1; b and b_ineq_mask have n + (number of such entries) entries.
C2_ProblemData ==
    asm_pc # "start" =>
        LET pd == problem_data
            n == C.n
            U == Cardinality(UpperPositions)
        IN  /\ Len(pd.b) = n + U
            /\ Len(pd.b_ineq_mask) = n + U
            /\ Len(pd.A_indices) = n + 2 * U
            /\ Len(pd.A_data) = Len(pd.A_indices)
            /\ \A r \in 1..Len(pd.A_indices) : pd.A_indices[r][1] \in 0..(n + U - 1)
            /\ \A i \in 0..(n - 1) :
                  /\ Cardinality(TriplesOf(pd.A_indices, i)) = 1
                  /\ \A r \in TriplesOf(pd.A_indices, i) :
                        pd.A_indices[r] = <<i, i, i>> /\ pd.A_data[r] = ROne
                  /\ pd.b[i + 1] = ROne
                  /\ pd.b_ineq_mask[i + 1] = 0
            /\ \A p \in UpperPositions :
                  LET c == n + UpperRank(p) - 1
                      i == C.indices[p][1]
                      j == C.indices[p][2]
                      rows == TriplesOf(pd.A_indices, c)
                  IN  /\ Cardinality(rows) = 2
                      /\ \E r1, r2 \in rows :
                            /\ r1 # r2
                            /\ pd.A_indices[r1] = <<c, i, j>>
                            /\ pd.A_indices[r2] = <<c, j, i>>
                      /\ \A r \in rows : pd.A_data[r] = Rat(-1, 2)
                      /\ pd.b[c + 1] = RZero
                      /\ pd.b_ineq_mask[c + 1] = 1

\* C2 witness: the data of a cost matrix with a diagonal entry followed by an
\* off-diagonal entry above the diagonal.
C2_Witness ==
    /\ asm_pc # "start"
    /\ Len(C.indices) = 2
    /\ C.indices[1][1] = C.indices[1][2]
    /\ C.indices[2][1] < C.indices[2][2]
    /\ Len(problem_data.b) = C.n + 2

Vecs == Seq(Rats)

VAddFn == [a \in Vecs, b \in Vecs |-> Tup([i \in 1..Len(a) |-> RAddFn[a[i], b[i]]])]
VAdd(u, v) == VAddFn[u, v]
VSubFn == [a \in Vecs, b \in Vecs |-> Tup([i \in 1..Len(a) |-> RAddFn[a[i], RNegFn[b[i]]]])]
VSub(u, v) == VSubFn[u, v]
VScaleFn == [c \in Rats, w \in Vecs |-> Tup([i \in 1..Len(w) |-> RMulFn[c, w[i]]])]
VScale(a, v) == VScaleFn[a, v]
VNegFn == [w \in Vecs |-> Tup([i \in 1..Len(w) |-> RNegFn[w[i]]])]
VNeg(v) == VNegFn[v]

RECURSIVE VSumTo(_, _)
VSumTo(v, i) == IF i = 0 THEN RZero ELSE RAddFn[VSumTo(v, i - 1), v[i]]
VSumFn == [w \in Vecs |-> VSumTo(w, Len(w))]
VSum(v) == VSumFn[Tup(v)]

DotFn == [a \in Vecs, b \in Vecs |-> VSumFn[Tup([i \in 1..Len(a) |-> RMulFn[a[i], b[i]]])]]
Dot(u, v) == DotFn[u, v]

RECURSIVE VMaxTo(_, _)
VMaxTo(v, i) == IF i = 1 THEN v[1] ELSE RMaxFn[VMaxTo(v, i - 1), v[i]]
VMaxFn == [w \in Vecs |-> VMaxTo(w, Len(w))]
VMax(v) == VMaxFn[Tup(v)]

\* jnp.where(v < 0, 0, v) / jnp.clip(v, a_min=0)
Clip0Fn == [w \in Vecs |-> Tup([i \in 1..Len(w) |-> RMaxFn[w[i], RZero]])]
Clip0(v) == Clip0Fn[Tup(v)]

\* the permutations of 1..Len(v) that list v in non-decreasing order: the
\* column orders jnp.linalg.eigh may return for a diagonal matrix
Perms(k) == {Tup(f) : f \in {g \in [1..k -> 1..k] : \A i, j \in 1..k : i # j => g[i] # g[j]}}
SortPerms(v) == The({{f \in Perms(Len(w)) : \A r \in 1..(Len(w) - 1) : RLe(w[f[r]], w[f[r + 1]])} : w \in {v}})

\* jnp.argsort (stable): position r holds the index of the r-th smallest entry
ArgSort(v) == The({(CHOOSE f \in SortPerms(w) : \A r \in 1..(Len(w) - 1) : w[f[r]] = w[f[r + 1]] => f[r] < f[r + 1]) : w \in {v}})

\* ------------------------------------------------------------------------
\* The SDP instance handed to specbm.  The operator callables are the ones
\* the solver's own reference formulation uses: A(X) = diag(X),
\* A*(y) = diag(y), and a diagonal cost C.  Matrices of the primal space
\* are then diagonal and are carried by their diagonals (m = n).
\*
\* A column vector is dir / sqrt(nsq) with an integer direction dir, so
\* that normalised eigenvectors such as (1, 1)/sqrt(2) stay exact.
\* ------------------------------------------------------------------------
E(n, i) == Tup([x \in 1..n |-> IF x = i THEN 1 ELSE 0])
UnitCol(n, i) == [dir |-> E(n, i), nsq |-> 1]

RECURSIVE ISumTo(_, _)
ISumTo(v, i) == IF i = 0 THEN 0 ELSE ISumTo(v, i - 1) + v[i]
ISum(v) == The({ISumTo(w, Len(w)) : w \in {v}})

\* V @ q for a basis V of unit columns and a vector q of coefficients
VTimes(V, q) == The({[dir |-> Tup([x \in 1..Len(W[1].dir) |-> ISum([c \in 1..Len(W) |-> u.dir[c] * W[c].dir[x]])]), nsq |-> u.nsq] : W \in {V}, u \in {q}})

\* A_operator_slim(v) = diag(v v^T): the squared entries of v
A_operator_slim(v) == The({Tup([x \in 1..Len(u.dir) |-> Rat(u.dir[x] * u.dir[x], u.nsq)]) : u \in {v}})

\* A_adjoint_slim(y, v) = diag(y) v and C_matvec(v) = C v, as the quadratic
\* forms u^T diag(d) v the solver takes of them (u, v unit-scaled columns)
DiagForm(u, d, v) == The({VSum([x \in 1..Len(dd) |-> RMul(RInt(a.dir[x] * b.dir[x]), dd[x])]) : a \in {u}, dd \in {d}, b \in {v}})

\* V^T diag(d) V for a basis V of unit columns
VT_Diag_V(V, d) == The({Tup([c1 \in 1..Len(W) |-> Tup([c2 \in 1..Len(W) |-> DiagForm(W[c1], dd, W[c2])])]) : W \in {V}, dd \in {d}})

\* diag(V S V^T) for a basis V of unit columns
Diag_V_S_VT(V, S) == The({Tup([x \in 1..Len(W[1].dir) |-> VSum([c1 \in 1..Len(W) |-> VSum([c2 \in 1..Len(W) |-> RMul(RInt(W[c1].dir[x] * W[c2].dir[x]), T[c1][c2])])])]) : W \in {V}, T \in {S}})

ZeroMat(k) == Tup([c1 \in 1..k |-> Tup([c2 \in 1..k |-> RZero])])
MScale(a, S) == The({Tup([c1 \in 1..Len(T) |-> VScale(c, T[c1])]) : c \in {a}, T \in {S}})
MSub(S, T) == The({Tup([c1 \in 1..Len(A) |-> VSub(A[c1], B[c1])]) : A \in {S}, B \in {T}})
MMaxAbs(S) == The({VMax([c1 \in 1..Len(T) |-> VMax([c2 \in 1..Len(T) |-> RAbs(T[c1][c2])])]) : T \in {S}})

\* jnp.linalg.eigh of a symmetric k x k matrix, k <= 2, that is diagonal or
\* has equal diagonal entries: the eigenpairs in non-decreasing order of
\* eigenvalue.  A repeated eigenvalue leaves the order of its eigenvectors
\* to the library, so the result is a set of admissible decompositions.
EigPairsOf(S) ==
    IF Len(S) = 1 THEN << [val |-> S[1][1], vec |-> UnitCol(1, 1)] >>
    ELSE IF S[1][2] = RZero
    THEN << [val |-> S[1][1], vec |-> UnitCol(2, 1)], [val |-> S[2][2], vec |-> UnitCol(2, 2)] >>
    ELSE IF S[1][1] = S[2][2]
    THEN << [val |-> RAdd(S[1][1], S[1][2]), vec |-> [dir |-> <<1, 1>>, nsq |-> 2]],
            [val |-> RSub(S[1][1], S[1][2]), vec |-> [dir |-> <<1, -1>>, nsq |-> 2]] >>
    \* no other matrix arises from the instances below; none has a value here
    ELSE The({})

EigPairs(S) == The({EigPairsOf(T) : T \in {S}})

eigh(S) == The({{Tup([r \in 1..Len(pairs) |-> pairs[f[r]]]) : f \in SortPerms([r \in 1..Len(pairs) |-> pairs[r].val])} : pairs \in {EigPairs(S)}})

\* (S_eigvecs * vals) @ S_eigvecs.T
FromEig(ev, vals) == The({Tup([c1 \in 1..Len(e) |-> Tup([c2 \in 1..Len(e) |-> VSum([r \in 1..Len(e) |-> RMul(w[r], Rat(e[r].vec.dir[c1] * e[r].vec.dir[c2], e[r].vec.nsq))])])]) : e \in {ev}, w \in {vals}})

\* jnp.sum(A_operator_batched((V @ S_eigvecs[:, :cnt]) * sqrt(w[:cnt])), axis=1)
A_operator_columns(V, ev, cnt) == The({Tup([r \in 1..cnt |-> A_operator_slim(VTimes(W, e[r].vec))]) : W \in {V}, e \in {ev}})
A_operator_factor(V, ev, w, cnt) == The({Tup([x \in 1..Len(V[1].dir) |-> VSum([r \in 1..cnt |-> RMul(u[r], sq[r][x])])]) : u \in {w}, sq \in {A_operator_columns(V, ev, cnt)}})

\* ------------------------------------------------------------------------
\* solve_subproblem: the projected gradient loop on (eta, S)
\* ------------------------------------------------------------------------
\* idx = jnp.sum(weighted_vals > 0) - 1, as a position counted from 1;
\* position 0 (no positive entry) is index -1, the last entry
ProjIdxNoMinusOne(positive, len) == IF positive + 1 > len THEN len ELSE positive + 1
ProjIdx(positive, len) == IF positive = 0 THEN len ELSE positive

proj_simplex(unsorted_vals) ==
    The({The({The({The({The({The({The({
        Tup([i \in 1..Len(vals) |-> proj_descend_vals[Len(vals) + 1 - inv_sort_indices[i]]])
        : proj_descend_vals \in {Tup([j \in 1..Len(vals) |-> RMax(RAdd(descend_vals[j], offset), RZero)])}})
        : offset \in {RSub(weighted_vals[idx], descend_vals[idx])}})
        : idx \in {ProjIdx(positive, Len(vals))}})
        : positive \in {Cardinality({j \in 1..Len(vals) : RLt(RZero, weighted_vals[j])})}})
        : weighted_vals \in {Tup([j \in 1..Len(vals) |-> RAdd(descend_vals[j], RMul(Rat(1, j), RSub(ROne, VSum(SubSeq(descend_vals, 1, j)))))])}})
        : descend_vals \in {Tup([j \in 1..Len(vals) |-> vals[order[Len(vals) + 1 - j]]])},
          inv_sort_indices \in {Tup([i \in 1..Len(vals) |-> CHOOSE r \in 1..Len(vals) : order[r] = i])}})
        : vals \in {unsorted_vals}, order \in {ArgSort(unsorted_vals)}})

FastPathTol == Rat(-1, 1000000)

no_projection_needed(trace_vals) ==
    /\ RLt(VSum(trace_vals), ROne)
    /\ \A r \in 1..Len(trace_vals) : RLt(FastPathTol, trace_vals[r])

\* one pass of apgd (momentum = 0.0, so S = S_curr and eta = eta_curr).  The
\* two eigendecompositions enter only through sums over all eigenpairs in
\* which equal eigenvalues carry equal weights, so the order eigh gives to
\* the vectors of a repeated eigenvalue does not show in the result.
apgd(p, sub, apgd_state) ==
    The({The({The({The({The({The({The({The({The({
        [i |-> apgd_state.i + 1, eta_curr |-> eta_next, eta_past |-> eta,
         S_curr |-> S_next, S_past |-> S,
         max_value_change |-> RMax(MMaxAbs(MSub(S, S_next)), RAbs(RSub(eta, eta_next)))]
        : S_next \in {FromEig(U_eig, proj_trace_vals)}, eta_next \in {proj_trace_vals[k + 1]}})
        : proj_trace_vals \in {IF no_projection_needed(trace_vals) THEN trace_vals ELSE proj_simplex(trace_vals)}})
        : trace_vals \in {Tup([r \in 1..(k + 1) |-> IF r <= k THEN U_eig[r].val ELSE eta_unproj])}})
        : U_eig \in {The(eigh(S_unproj))}})
        : S_unproj \in {MSub(S, MScale(p.apgd_step_size, grad_S))},
          eta_unproj \in {RSub(eta, RMul(p.apgd_step_size, grad_eta))}})
        : grad_S \in {VT_Diag_V(sub.V, VAdd(VSub(VScale(p.trace_ub, p.C), VScale(p.trace_ub, sub.y)), VScale(RDiv(p.trace_ub, p.rho), VSub(VAdd(VScale(eta, sub.z_bar), A_operator_VSV_T), p.b))))},
          grad_eta \in {RAdd(RAdd(RSub(sub.bar_primal_obj, Dot(sub.y, sub.z_bar)), RMul(RDiv(eta, p.rho), Dot(sub.z_bar, sub.z_bar))), RMul(RDiv(ROne, p.rho), Dot(sub.z_bar, VSub(A_operator_VSV_T, p.b))))}})
        : A_operator_VSV_T \in {A_operator_factor(sub.V, S_eig, VScale(p.trace_ub, S_eigvals), k)}})
        : S_eigvals \in {Clip0([r \in 1..k |-> S_eig[r].val])}})
        : S_eig \in {The(eigh(apgd_state.S_curr))}, S \in {apgd_state.S_curr}, eta \in {apgd_state.eta_curr}, k \in {Len(sub.V)}})

InitMaxValueChangeAtEps(apgd_eps) == apgd_eps
InitMaxValueChange(apgd_eps) == RMul(Rat(11, 10), apgd_eps)

init_apgd_state(p, k) ==
    [i |-> 0, eta_curr |-> RZero, eta_past |-> RZero, S_curr |-> ZeroMat(k), S_past |-> ZeroMat(k),
     max_value_change |-> InitMaxValueChange(p.apgd_eps)]

\* the loop condition of bounded_while_loop: the test of the lambda and the
\* max_steps budget
apgd_continues(p, apgd_state, steps) ==
    RLt(p.apgd_eps, apgd_state.max_value_change) /\ steps < p.apgd_max_iters

RECURSIVE bounded_while_loop(_, _, _, _)
bounded_while_loop(p, sub, apgd_state, steps) ==
    IF apgd_continues(p, apgd_state, steps)
    THEN The({bounded_while_loop(p, sub, next_apgd_state, steps + 1) : next_apgd_state \in {apgd(p, sub, apgd_state)}})
    ELSE apgd_state

apgd_result(p, apgd_state) == [eta |-> apgd_state.eta_curr, S |-> MScale(p.trace_ub, apgd_state.S_curr)]

solve_subproblem(p, sub) == apgd_result(p, bounded_while_loop(p, sub, init_apgd_state(p, Len(sub.V)), 0))

\* ------------------------------------------------------------------------
\* specbm: the outer loop's state and transition
\* ------------------------------------------------------------------------
\* approx_grad_k_min_eigen (solver.eigen): the k algebraically smallest
\* eigenpairs of C + A*(adjoint_left_vec), eigenvalues ascending, taken as
\* exact.  Eigenvectors of a repeated eigenvalue come in either order.
approx_grad_k_min_eigen(p, adjoint_left_vec, k) ==
    UNION {{[eigvals |-> Tup([r \in 1..k |-> d[f[r]]]), eigvecs |-> Tup([r \in 1..k |-> UnitCol(p.n, f[r])])] : f \in SortPerms(d)} :
           d \in {VAdd(p.C, adjoint_left_vec)}}

PenDualObjUnclipped(p, y, eigval) == RAdd(Dot(VNeg(p.b), y), RMul(p.trace_ub, eigval))
PenDualObj(p, y, eigval) == RAdd(Dot(VNeg(p.b), y), RMul(p.trace_ub, RMax(eigval, RZero)))

init_state(p) ==
    The({[t |-> 0, X |-> p.X, X_bar |-> p.X, tr_X_bar |-> VSum(p.X), z |-> p.z, z_bar |-> p.z,
          y |-> p.y, V |-> p.V, primal_obj |-> p.primal_obj, bar_primal_obj |-> p.primal_obj,
          pen_dual_obj |-> PenDualObj(p, p.y, prev_eigvals[1]), lb_spec_est |-> RZero]
        : prev_eigvals \in {VNeg(The(approx_grad_k_min_eigen(p, VNeg(p.y), 1)).eigvals)}})

cond_func(p, state) ==
    \/ state.t = 0
    \/ /\ RAdd(ROne, state.pen_dual_obj) # RZero
       /\ RLt(p.eps, RDiv(RSub(state.pen_dual_obj, state.lb_spec_est), RAdd(ROne, state.pen_dual_obj)))
    \/ /\ RAdd(ROne, state.pen_dual_obj) = RZero
       /\ RLt(RZero, RSub(state.pen_dual_obj, state.lb_spec_est))

SeriousStepReversed(beta, pen_dual_obj, lb_spec_est, cand_pen_dual_obj) == RLe(RSub(pen_dual_obj, cand_pen_dual_obj), RMul(beta, RSub(pen_dual_obj, lb_spec_est)))
SeriousStep(beta, pen_dual_obj, lb_spec_est, cand_pen_dual_obj) == RLe(RMul(beta, RSub(pen_dual_obj, lb_spec_est)), RSub(pen_dual_obj, cand_pen_dual_obj))

X_bar_kept(state, eta, curr) == state.X_bar
X_bar_next(state, eta, curr) == VAdd(VScale(eta, state.X_bar), curr)

V_next_bottom(V, S_eig, cand_eigvecs, k_curr, k_past) == Tup([r \in 1..(k_past + k_curr) |-> IF r <= k_past THEN VTimes(V, S_eig[r].vec) ELSE cand_eigvecs[r - k_past]])
V_next(V, S_eig, cand_eigvecs, k_curr, k_past) == Tup([r \in 1..(k_past + k_curr) |-> IF r <= k_past THEN VTimes(V, S_eig[k_curr + r].vec) ELSE cand_eigvecs[r - k_past]])

SubproblemOf(state) == [bar_primal_obj |-> state.bar_primal_obj, z_bar |-> state.z_bar, tr_X_bar |-> state.tr_X_bar, y |-> state.y, V |-> state.V]

\* body_func with the interactive inspection block between the subproblem
\* solve and the update (it ends in embed() and exit()) left out, so that
\* the update is reached: every state the update can return, one
\* for each decomposition S_eig of S that eigh may give and each answer
\* cand of the eigensolver at y_cand
body_func_update(p, state, eta, S, S_eig, cand) ==
    The({The({The({The({The({The({The({
        [next |-> [t |-> state.t + 1,
                   X |-> VAdd(VScale(eta, state.X_bar), Diag_V_S_VT(state.V, S)),
                   X_bar |-> X_bar_n, tr_X_bar |-> VSum(X_bar_n),
                   z |-> z_next, z_bar |-> VAdd(VScale(eta, state.z_bar), curr),
                   y |-> IF serious THEN y_cand ELSE state.y,
                   V |-> V_next(state.V, S_eig, cand.eigvecs, p.k_curr, p.k_past),
                   primal_obj |-> RAdd(RMul(eta, state.bar_primal_obj), trace_factor_C),
                   bar_primal_obj |-> RAdd(RMul(eta, state.bar_primal_obj), Dot(p.C, curr)),
                   pen_dual_obj |-> IF serious THEN cand_pen_dual_obj ELSE state.pen_dual_obj,
                   lb_spec_est |-> lb_spec_est],
         loc |-> [eta |-> eta, S |-> S, S_eig |-> S_eig, y_cand |-> y_cand,
                  cand_eigvals |-> cand_eigvals, cand_eigvecs |-> cand.eigvecs,
                  cand_pen_dual_obj |-> cand_pen_dual_obj]]
        : X_bar_n \in {X_bar_next(state, eta, curr)}})
        : serious \in {SeriousStep(p.beta, state.pen_dual_obj, lb_spec_est, cand_pen_dual_obj)},
          curr \in {A_operator_factor(state.V, S_eig, S_eigvals, p.k_curr)}})
        : cand_pen_dual_obj \in {PenDualObj(p, y_cand, cand_eigvals[1])},
          lb_spec_est \in {RSub(RAdd(RSub(RAdd(Dot(VNeg(p.b), y_cand), RMul(eta, Dot(state.z_bar, y_cand))), RMul(eta, state.bar_primal_obj)), Dot(A_operator_VSV_T, y_cand)), trace_factor_C)}})
        : y_cand \in {VAdd(state.y, VScale(RDiv(ROne, p.rho), VSub(p.b, z_next)))},
          trace_factor_C \in {Dot(p.C, A_operator_VSV_T)},
          cand_eigvals \in {VNeg(cand.eigvals)}})
        : z_next \in {VAdd(VScale(eta, state.z_bar), A_operator_VSV_T)}})
        : A_operator_VSV_T \in {A_operator_factor(state.V, S_eig, S_eigvals, Len(state.V))}})
        : S_eigvals \in {Clip0([r \in 1..Len(state.V) |-> S_eig[r].val])}})

\* the y_cand of the update, where the eigensolver is called
Y_cand(p, state, eta, S_eig) ==
    The({VAdd(state.y, VScale(RDiv(ROne, p.rho), VSub(p.b, VAdd(VScale(eta, state.z_bar), A_operator_VSV_T))))
        : A_operator_VSV_T \in {A_operator_factor(state.V, S_eig, Clip0([r \in 1..Len(state.V) |-> S_eig[r].val]), Len(state.V))}})

body_func(p, state) ==
    UNION {UNION {{body_func_update(p, state, sol.eta, sol.S, S_eig, cand) :
                      cand \in approx_grad_k_min_eigen(p, VNeg(Y_cand(p, state, sol.eta, S_eig)), p.k_curr)} :
                  S_eig \in eigh(sol.S)} :
           sol \in {solve_subproblem(p, SubproblemOf(state))}}

\* ------------------------------------------------------------------------
\* The driver at the end of specbm: it builds init_state, reads state1 from
\* state1.pkl (the file the lines above the read wrote on an earlier run:
\* body_func(init_state)), calls body_func once on it and stops at the
\* interactive shell.  cond_func and max_iters are not consulted.
\* ------------------------------------------------------------------------
specbm_init_state ==
    /\ bm_pc = "start"
    /\ bm_init_state' = init_state(bm_args)
    /\ eig_calls' = eig_calls + 1
    /\ bm_pc' = "init"
    /\ UNCHANGED <<bm_args, state1, state2, locals1, locals2, transitions, asmVars, apgdVars, laterVars>>

load_state1 ==
    /\ bm_pc = "init"
    /\ \E r \in body_func(bm_args, bm_init_state) :
         /\ state1' = r.next
         /\ locals1' = r.loc
    /\ bm_pc' = "loaded"
    /\ UNCHANGED <<bm_args, bm_init_state, state2, locals2, eig_calls, transitions, asmVars, apgdVars, laterVars>>

call_body_func ==
    /\ bm_pc = "loaded"
    /\ \E r \in body_func(bm_args, state1) :
         /\ state2' = r.next
         /\ locals2' = r.loc
    /\ eig_calls' = eig_calls + 1
    /\ transitions' = transitions + 1
    /\ bm_pc' = "done"
    /\ UNCHANGED <<bm_args, bm_init_state, state1, locals1, asmVars, apgdVars, laterVars>>

\* ------------------------------------------------------------------------
\* Arguments of specbm and of solve_subproblem
\* ------------------------------------------------------------------------
Dim == 2
MaxApgdIters == 2
MaxIters == 3

\* a vector of length Dim from its leading entries, integer valued
Vec(lead, fill) == [x \in 1..Dim |-> IF x <= Len(lead) THEN RInt(lead[x]) ELSE RInt(fill)]

CostDiags == {Vec(<<-1, -1>>, 0), Vec(<<0, 1>>, 0), Vec(<<1, 1>>, 1)}
PrimalDiags == {Vec(<<0, 0>>, 0), Vec(<<1, 0>>, 0)}
Duals == {Vec(<<0, 0>>, 0), Vec(<<1, 2>>, 0), Vec(<<2, 2>>, 0)}
BundleSizes == {[k_curr |-> 1, k_past |-> 0], [k_curr |-> 1, k_past |-> 1]}

\* bases of k distinct coordinate columns
Bases(k) == {[c \in 1..k |-> UnitCol(Dim, f[c])] : f \in {g \in [1..k -> 1..Dim] : \A i, j \in 1..k : i # j => g[i] # g[j]}}

SpecbmArgs(apgd_iters, apgd_epss, iters) ==
    {[n |-> Dim, C |-> c, b |-> Vec(<<>>, 1), trace_ub |-> RInt(tu), rho |-> ROne, beta |-> beta,
      k_curr |-> ks.k_curr, k_past |-> ks.k_past, eps |-> Rat(1, 100), max_iters |-> max_iters,
      apgd_step_size |-> Rat(1, 2), apgd_max_iters |-> ami, apgd_eps |-> apgd_eps,
      X |-> X, y |-> y, z |-> X, primal_obj |-> Dot(c, X), V |-> V] :
        c \in CostDiags, tu \in {1, 2}, beta \in {RZero, Rat(1, 2)}, ks \in BundleSizes,
        max_iters \in iters, ami \in apgd_iters, apgd_eps \in apgd_epss,
        X \in PrimalDiags, y \in Duals, V \in UNION {Bases(ks2.k_curr + ks2.k_past) : ks2 \in BundleSizes}}

ArgsConsistent(a) == Len(a.V) = a.k_curr + a.k_past

InitBM ==
    /\ bm_pc = "start"
    /\ bm_args \in {a \in SpecbmArgs({1}, {Rat(1, 10)}, {0, MaxIters}) : ArgsConsistent(a)}
    /\ bm_init_state = Unset
    /\ state1 = Unset
    /\ state2 = Unset
    /\ locals1 = Unset
    /\ locals2 = Unset
    /\ eig_calls = 0
    /\ transitions = 0
    /\ AsmIdle
    /\ APGDIdle
    /\ LaterIdle

NextBM ==
    \/ specbm_init_state
    \/ load_state1
    \/ call_body_func

SpecBM == InitBM /\ [][NextBM]_vars

\* ------------------------------------------------------------------------
\* Properties of the outer loop
\* ------------------------------------------------------------------------
\* the transitions made so far: state, next state and the locals of
\* body_func in between
Transitions ==
    (IF bm_pc \in {"loaded", "done"} THEN {[prev |-> bm_init_state, next |-> state1, loc |-> locals1]} ELSE {})
        \cup (IF bm_pc = "done" THEN {[prev |-> state1, next |-> state2, loc |-> locals2]} ELSE {})

\* the serious-step test of a transition, with the lb_spec_est it computed
TestHolds(tr) ==
    RLe(RMul(bm_args.beta, RSub(tr.prev.pen_dual_obj, tr.next.lb_spec_est)),
        RSub(tr.prev.pen_dual_obj, tr.loc.cand_pen_dual_obj))

BundleCenter(state) == <<state.X_bar, state.z_bar, state.bar_primal_obj, state.tr_X_bar>>

\* the contribution of the k_curr lowest eigen-directions of S to diag(X)
CurrPart(tr) ==
    A_operator_factor(tr.prev.V, tr.loc.S_eig, Clip0([r \in 1..Len(tr.prev.V) |-> tr.loc.S_eig[r].val]), bm_args.k_curr)

\* S q = val q for an eigenpair (val, q)
IsEigenpair(S, pair) ==
    \A c1 \in 1..Len(S) :
        VSum([c2 \in 1..Len(S) |-> RMul(S[c1][c2], RInt(pair.vec.dir[c2]))]) = RMul(pair.val, RInt(pair.vec.dir[c1]))

\* C4: when specbm is through with its outer loop it has made at most
\* max_iters transitions, and it has stopped because the terminal condition
\* holds (cond_func is false of the last state) or because t has reached
\* max_iters.
C4_OuterLoopStops ==
    bm_pc = "done" =>
        /\ transitions <= bm_args.max_iters
        /\ state2.t <= bm_args.max_iters
        /\ (~cond_func(bm_args, state2) \/ state2.t = bm_args.max_iters)

\* C5: in every transition the next y and pen_dual_obj are y_cand and
\* cand_pen_dual_obj when beta * (pen_dual_obj - lb_spec_est) <=
\* pen_dual_obj - cand_pen_dual_obj, with the lb_spec_est of this
\* transition, and the previous y and pen_dual_obj otherwise; either way t
\* is increased by one and V ends with the fresh eigenvectors.
C5_SeriousStepTest ==
    \A tr \in Transitions :
        /\ TestHolds(tr) => tr.next.y = tr.loc.y_cand /\ tr.next.pen_dual_obj = tr.loc.cand_pen_dual_obj
        /\ ~TestHolds(tr) => tr.next.y = tr.prev.y /\ tr.next.pen_dual_obj = tr.prev.pen_dual_obj
        /\ tr.next.t = tr.prev.t + 1
        /\ \A r \in 1..bm_args.k_curr : tr.next.V[bm_args.k_past + r] = tr.loc.cand_eigvecs[r]

\* a serious step followed by a null step whose candidate differs from y
C5_Witness ==
    /\ bm_pc = "done"
    /\ state1.y # bm_init_state.y
    /\ state2.y = state1.y
    /\ locals2.y_cand # state1.y
    /\ state2.lb_spec_est # state1.lb_spec_est

\* C6 as stated: a transition whose serious-step test fails leaves X_bar,
\* z_bar, bar_primal_obj and tr_X_bar as they were.
C6_CenterHeldOnNullStep ==
    \A tr \in Transitions : ~TestHolds(tr) => BundleCenter(tr.next) = BundleCenter(tr.prev)

\* C6: every transition, serious or null, recomputes the bundle center:
\* X_bar is eta * X_bar plus the part of V S V^T in the k_curr lowest
\* eigen-directions of S, z_bar is eta * z_bar plus the image of that part,
\* bar_primal_obj is eta * bar_primal_obj plus its cost, and tr_X_bar is the
\* trace of the new X_bar.  A null step holds y and pen_dual_obj only.
C6_CenterRecomputed ==
    \A tr \in Transitions :
        /\ tr.next.X_bar = VAdd(VScale(tr.loc.eta, tr.prev.X_bar), CurrPart(tr))
        /\ tr.next.z_bar = VAdd(VScale(tr.loc.eta, tr.prev.z_bar), CurrPart(tr))
        /\ tr.next.bar_primal_obj = RAdd(RMul(tr.loc.eta, tr.prev.bar_primal_obj), Dot(bm_args.C, CurrPart(tr)))
        /\ tr.next.tr_X_bar = VSum(tr.next.X_bar)
        /\ ~TestHolds(tr) => tr.next.y = tr.prev.y /\ tr.next.pen_dual_obj = tr.prev.pen_dual_obj

\* a null step that moves the bundle center
C6_Witness ==
    \E tr \in Transitions : ~TestHolds(tr) /\ tr.next.X_bar # tr.prev.X_bar /\ tr.next.z_bar # tr.prev.z_bar

\* C7: with 0 <= beta no transition increases pen_dual_obj: a null step
\* leaves it unchanged and a serious step does not raise it.
C7_PenDualObjNonIncreasing ==
    \A tr \in Transitions :
        RLe(RZero, bm_args.beta) =>
            /\ RLe(tr.next.pen_dual_obj, tr.prev.pen_dual_obj)
            /\ ~TestHolds(tr) => tr.next.pen_dual_obj = tr.prev.pen_dual_obj

\* C8: the initial state has t = 0, the bundle center at the caller's
\* primal point, the caller's y and V, and pen_dual_obj = -<b, y> +
\* trace_ub * max(0, lambda) with lambda the largest eigenvalue of
\* A*(y) - C, got from the one eigensolver call made so far.
C8_InitialState ==
    bm_pc = "init" =>
        /\ bm_init_state.t = 0
        /\ bm_init_state.X_bar = bm_args.X
        /\ bm_init_state.z_bar = bm_args.z
        /\ bm_init_state.bar_primal_obj = bm_args.primal_obj
        /\ bm_init_state.tr_X_bar = VSum(bm_args.X)
        /\ bm_init_state.y = bm_args.y
        /\ bm_init_state.V = bm_args.V
        /\ bm_init_state.pen_dual_obj =
               RAdd(RNeg(Dot(bm_args.b, bm_args.y)),
                    RMul(bm_args.trace_ub, RMax(RZero, VMax(VSub(bm_args.y, bm_args.C)))))
        /\ eig_calls = 1

\* an initial state whose eigenvalue is negative, so that the clip acts
C8_Witness ==
    /\ bm_pc = "init"
    /\ RLt(VMax(VSub(bm_args.y, bm_args.C)), RZero)
    /\ bm_init_state.pen_dual_obj = RNeg(Dot(bm_args.b, bm_args.y))

\* C9 as stated: V_next has k_past + k_curr columns, the first k_past of
\* them V times eigenvectors of S for its k_past smallest eigenvalues (in
\* some admissible order of equal eigenvalues), the last k_curr the fresh
\* eigenvectors.
C9_KeepsBottomEigenvectors ==
    \A tr \in Transitions :
        /\ Len(tr.next.V) = bm_args.k_past + bm_args.k_curr
        /\ \E ed \in eigh(tr.loc.S) :
               \A r \in 1..bm_args.k_past : tr.next.V[r] = VTimes(tr.prev.V, ed[r].vec)
        /\ \A r \in 1..bm_args.k_curr : tr.next.V[bm_args.k_past + r] = tr.loc.cand_eigvecs[r]

\* C9: V_next has k_past + k_curr columns; the first k_past are V times
\* eigenvectors of S for its k_past largest eigenvalues (those left when
\* the k_curr smallest are taken out), the last k_curr are the eigenvectors
\* the eigensolver computed at y_cand.
C9_KeepsTopEigenvectors ==
    \A tr \in Transitions :
        /\ Len(tr.next.V) = bm_args.k_past + bm_args.k_curr
        /\ \A r \in 1..bm_args.k_past :
               /\ tr.next.V[r] = VTimes(tr.prev.V, tr.loc.S_eig[bm_args.k_curr + r].vec)
               /\ IsEigenpair(tr.loc.S, tr.loc.S_eig[bm_args.k_curr + r])
               /\ \A j \in 1..bm_args.k_curr : RLe(tr.loc.S_eig[j].val, tr.loc.S_eig[bm_args.k_curr + r].val)
        /\ \A r \in 1..bm_args.k_curr : tr.next.V[bm_args.k_past + r] = tr.loc.cand_eigvecs[r]

\* a transition that keeps a past direction, S having distinct eigenvalues
\* whose eigenvectors V maps to different columns
C9_Witness ==
    \E tr \in Transitions :
        /\ bm_args.k_past = 1
        /\ RLt(tr.loc.S_eig[1].val, tr.loc.S_eig[2].val)
        /\ VTimes(tr.prev.V, tr.loc.S_eig[1].vec) # VTimes(tr.prev.V, tr.loc.S_eig[2].vec)
        /\ tr.next.V[1] = VTimes(tr.prev.V, tr.loc.S_eig[2].vec)

\* ------------------------------------------------------------------------
\* solve_subproblem run pass by pass
\* ------------------------------------------------------------------------
apgd_pass ==
    /\ apgd_pc = "loop"
    /\ apgd_continues(apgd_args, loop_apgd_state, apgd_steps)
    /\ loop_apgd_state' = apgd(apgd_args, apgd_sub, loop_apgd_state)
    /\ apgd_steps' = apgd_steps + 1
    /\ UNCHANGED <<apgd_pc, apgd_args, apgd_sub, apgd_ret, asmVars, bmVars, laterVars>>

apgd_return ==
    /\ apgd_pc = "loop"
    /\ ~apgd_continues(apgd_args, loop_apgd_state, apgd_steps)
    /\ apgd_ret' = apgd_result(apgd_args, loop_apgd_state)
    /\ apgd_pc' = "returned"
    /\ UNCHANGED <<apgd_args, apgd_sub, loop_apgd_state, apgd_steps, asmVars, bmVars, laterVars>>

\* instances whose first gradient step leaves eta just below zero, within
\* the tolerance of the skip-projection test: the bundle center is
\* X_bar = diag(1, 0, ...) and grad_eta is one millionth
NearZeroArgs ==
    {[n |-> Dim, C |-> Vec(<<2>>, 1), b |-> Vec(<<>>, 1), trace_ub |-> ROne, rho |-> ROne, beta |-> RZero,
      k_curr |-> 1, k_past |-> 0, eps |-> Rat(1, 100), max_iters |-> MaxIters,
      apgd_step_size |-> Rat(1, 2), apgd_max_iters |-> ami, apgd_eps |-> apgd_eps,
      X |-> Vec(<<1>>, 0), y |-> [x \in 1..Dim |-> IF x = 1 THEN Rat(999999, 1000000) ELSE RZero],
      z |-> Vec(<<1>>, 0), primal_obj |-> RInt(2), V |-> <<UnitCol(Dim, 2)>>] :
        ami \in 1..MaxApgdIters, apgd_eps \in {RZero, Rat(1, 10)}}

InitAPGD ==
    /\ apgd_pc = "loop"
    /\ apgd_args \in {a \in SpecbmArgs(0..MaxApgdIters, {RZero, Rat(1, 10)}, {MaxIters}) : ArgsConsistent(a)} \cup NearZeroArgs
    /\ apgd_sub = SubproblemOf(init_state(apgd_args))
    /\ loop_apgd_state = init_apgd_state(apgd_args, Len(apgd_args.V))
    /\ apgd_steps = 0
    /\ apgd_ret = Unset
    /\ AsmIdle
    /\ BMIdle
    /\ LaterIdle

NextAPGD ==
    \/ apgd_pass
    \/ apgd_return

SpecAPGD == InitAPGD /\ [][NextAPGD]_vars

\* ------------------------------------------------------------------------
\* Properties of the projected gradient loop
\* ------------------------------------------------------------------------
\* the largest absolute coordinate change between the last two iterates
IterateChange(apgd_state) ==
    RMax(MMaxAbs(MSub(apgd_state.S_past, apgd_state.S_curr)), RAbs(RSub(apgd_state.eta_past, apgd_state.eta_curr)))

\* C10: a pass of the loop is made only while fewer than apgd_max_iters
\* passes have been made and the last two iterates differ by more than
\* apgd_eps in some coordinate; the loop returns when that change is
\* <= apgd_eps or apgd_max_iters passes have been made, and what it returns
\* is (eta_curr, trace_ub * S_curr) of the current iterate; with
\* apgd_eps > 0 and apgd_max_iters >= 1 it has then made at least one pass.
C10_ApgdLoopStops ==
    [][/\ apgd_steps' # apgd_steps =>
            /\ apgd_steps' = apgd_steps + 1
            /\ apgd_steps < apgd_args.apgd_max_iters
            /\ apgd_steps >= 1 => RLt(apgd_args.apgd_eps, IterateChange(loop_apgd_state))
            /\ loop_apgd_state'.max_value_change = IterateChange(loop_apgd_state')
       /\ apgd_pc' # apgd_pc =>
            /\ apgd_pc' = "returned"
            /\ apgd_steps <= apgd_args.apgd_max_iters
            /\ \/ apgd_steps = apgd_args.apgd_max_iters
               \/ RLe(IterateChange(loop_apgd_state), apgd_args.apgd_eps)
            /\ apgd_ret' = [eta |-> loop_apgd_state.eta_curr,
                            S |-> MScale(apgd_args.trace_ub, loop_apgd_state.S_curr)]
            /\ (RLt(RZero, apgd_args.apgd_eps) /\ apgd_args.apgd_max_iters >= 1) => apgd_steps >= 1]_vars

\* the loop has returned at the cap, its iterates still moving
C10_Witness ==
    /\ apgd_pc = "returned"
    /\ apgd_steps = apgd_args.apgd_max_iters
    /\ apgd_steps >= 2
    /\ RLt(apgd_args.apgd_eps, IterateChange(loop_apgd_state))
    /\ apgd_ret.S # ZeroMat(Len(apgd_args.V))

\* trace of a k x k matrix
Trace(S) == VSum([c1 \in 1..Len(S) |-> S[c1][c1]])

\* (eta, S) is feasible for the bundle subproblem of sub
Feasible(p, sub, eta, S) ==
    /\ RLe(RZero, eta)
    /\ \A ed \in eigh(S) : \A r \in 1..Len(ed) : RLe(RZero, ed[r].val)
    /\ RLe(RAdd(Trace(S), RMul(eta, sub.tr_X_bar)), p.trace_ub)

\* C11: after every pass of the loop, and at its return, the pair
\* (eta_curr, trace_ub * S_curr) is feasible: eta >= 0, S has no negative
\* eigenvalue and trace(S) + eta * tr_X_bar <= trace_ub.
C11_SubproblemFeasible ==
    /\ apgd_pc = "loop" => Feasible(apgd_args, apgd_sub, loop_apgd_state.eta_curr, MScale(apgd_args.trace_ub, loop_apgd_state.S_curr))
    /\ apgd_pc = "returned" => Feasible(apgd_args, apgd_sub, apgd_ret.eta, apgd_ret.S)

\* ------------------------------------------------------------------------
\* proj_simplex on its own
\* ------------------------------------------------------------------------
MaxProjLen == 3

ProjEntries == {Rat(-1, 1), Rat(-1, 2), RZero, Rat(1, 3), Rat(1, 2), ROne, Rat(2, 1)}
ProjInputs == UNION {[1..len -> ProjEntries] : len \in 1..MaxProjLen}

call_proj_simplex ==
    /\ proj_pc = "input"
    /\ proj_out' = proj_simplex(proj_in)
    /\ proj_pc' = "output"
    /\ UNCHANGED <<proj_in, notProj>>

InitProj ==
    /\ proj_pc = "input"
    /\ proj_in \in ProjInputs
    /\ proj_out = Unset
    /\ AsmIdle
    /\ BMIdle
    /\ APGDIdle
    /\ LanIdle
    /\ CgalIdle
    /\ WsIdle

NextProj == call_proj_simplex

SpecProj == InitProj /\ [][NextProj]_vars

\* squared Euclidean distance
DistSq(u, v) == VSum([x \in 1..Len(u) |-> RMul(RSub(u[x], v[x]), RSub(u[x], v[x]))])

\* the points of the probability simplex whose entries are multiples of 1/6
SimplexGrid(len) == {q \in [1..len -> {Rat(j, 6) : j \in 0..6}] : VSum(q) = ROne}

\* C12: proj_simplex returns a vector of the length of its argument, in
\* the argument's coordinate order, with entries >= 0 that sum to 1, and
\* no point of the simplex is nearer to the argument: the result p
\* satisfies <v - p, e_i - p> <= 0 at every vertex e_i, and no grid point
\* of the simplex is nearer.
C12_SimplexProjection ==
    proj_pc = "output" =>
        /\ Len(proj_out) = Len(proj_in)
        /\ \A x \in 1..Len(proj_out) : RLe(RZero, proj_out[x])
        /\ VSum(proj_out) = ROne
        /\ \A x \in 1..Len(proj_in) :
               RLe(RSub(RSub(proj_in[x], proj_out[x]), Dot(VSub(proj_in, proj_out), proj_out)), RZero)
        /\ \A q \in SimplexGrid(Len(proj_in)) : RLe(DistSq(proj_in, proj_out), DistSq(proj_in, q))
        /\ \A x1, x2 \in 1..Len(proj_in) : RLe(proj_in[x1], proj_in[x2]) => RLe(proj_out[x1], proj_out[x2])

\* an unsorted argument outside the simplex, one entry of which is cut to
\* zero while the others are shifted
C12_Witness ==
    /\ proj_pc = "output"
    /\ Len(proj_in) = 3
    /\ RLt(proj_in[1], proj_in[3]) /\ RLt(proj_in[3], proj_in[2])
    /\ proj_out[1] = RZero
    /\ RLt(RZero, proj_out[3])
    /\ proj_out[3] # proj_in[3]

\* ------------------------------------------------------------------------
\* approx_k_min_eigen (solver.py): Lanczos tridiagonalization
\* ------------------------------------------------------------------------
\* integer square root by Newton's iteration, and the square root of a
\* rational that is a square (jnp.linalg.norm of the vectors met below)
RECURSIVE ISqrtFrom(_, _)
ISqrtFrom(n, x) == IF x = 0 \/ x <= n \div x THEN x ELSE ISqrtFrom(n, (x + n \div x) \div 2)
ISqrt(n) == ISqrtFrom(n, n)
RSqrtFn == [a \in Rats |-> The({r \in {Rat(ISqrt(a[1]), ISqrt(a[2]))} : RMul(r, r) = a})]
RSqrt(x) == RSqrtFn[x]
Norm(v) == RSqrt(Dot(v, v))

\* M(v) for the operator given by a symmetric matrix
MatVec(M, v) == The({Tup([x \in 1..Len(A) |-> Dot(A[x], u)]) : A \in {M}, u \in {v}})

\* the value of 0/0 and of x/0 in every entry
NaNVec(n) == Tup([x \in 1..n |-> "nan"])

\* lax.fori_loop(1, t+1, lambda i, vec: vec - dot(vec, V[i]) * V[i], v_next)
RECURSIVE Reorthogonalize(_, _, _, _)
Reorthogonalize(V, i, upper, vec) ==
    IF i >= upper THEN vec
    ELSE The({Reorthogonalize(V, i + 1, upper, w) : w \in {VSub(vec, VScale(Dot(vec, V[i]), V[i]))}})

\* the loop condition without its "or t == 1"
tri_diag_cond_func_no_first_pass(p, state) ==
    /\ RLt(p.eps, state.off_diag[state.t])
    /\ state.t <= p.num_iters

\* the loop condition without its "t <= num_iters"
tri_diag_cond_func_no_budget(p, state) ==
    RLt(p.eps, state.off_diag[state.t]) \/ state.t = 1

tri_diag_cond_func(p, state) ==
    /\ RLt(p.eps, state.off_diag[state.t]) \/ state.t = 1
    /\ state.t <= p.num_iters

tri_diag_body_func(p, state) ==
    The({The({The({The({
        [t |-> state.t + 1,
         V |-> [state.V EXCEPT ![state.t + 1] = IF norm = RZero THEN NaNVec(p.n) ELSE VScale(RDiv(ROne, norm), v_next)],
         diag |-> [state.diag EXCEPT ![state.t] = alpha],
         off_diag |-> [state.off_diag EXCEPT ![state.t + 1] = norm]]
        : norm \in {Norm(v_next)}})
        : v_next \in {Reorthogonalize(state.V, 1, state.t + 1, VSub(transformed_v, VScale(alpha, state.V[state.t])))}})
        : alpha \in {Dot(state.V[state.t], transformed_v)}})
        : transformed_v \in {VSub(MatVec(p.M, state.V[state.t]), VScale(state.off_diag[state.t], state.V[state.t - 1]))}})

ZeroVec(n) == Tup([x \in 1..n |-> RZero])

tri_diag_init_state(p) ==
    [t |-> 1,
     V |-> [i \in 0..(p.num_iters + 1) |-> IF i = 1 THEN p.v_1 ELSE ZeroVec(p.n)],
     diag |-> [i \in 0..p.num_iters |-> RZero],
     off_diag |-> [i \in 0..(p.num_iters + 1) |-> RZero]]

\* the tridiagonal arrays handed to eigh_tridiagonal (the slices of lines
\* 68 to 70: every row of the preallocated arrays, the rows the loop never
\* wrote included), as a list of diagonal entries and a list of
\* off-diagonal entries one shorter
TriDiagOf(p, state) ==
    [diag |-> Tup([i \in 1..p.num_iters |-> state.diag[i]]),
     off_diag |-> Tup([i \in 1..(IF p.num_iters = 0 THEN 0 ELSE p.num_iters - 1) |-> state.off_diag[i + 1]])]

\* characteristic polynomial of the tridiagonal block on rows lo..hi at x
\* (three-term recurrence)
RECURSIVE CharPoly(_, _, _, _)
CharPoly(T, lo, hi, x) ==
    IF hi < lo THEN ROne
    ELSE IF hi = lo THEN RSub(T.diag[hi], x)
    ELSE RSub(RMul(RSub(T.diag[hi], x), CharPoly(T, lo, hi - 1, x)),
              RMul(RMul(T.off_diag[hi - 1], T.off_diag[hi - 1]), CharPoly(T, lo, hi - 2, x)))

\* the candidates for eigenvalues: the spectra met below are integers
MaxEig == 6
EigCandidates == {RInt(i) : i \in (0 - MaxEig)..MaxEig}

RECURSIVE SetToSeq(_)
SetToSeq(S) == IF S = {} THEN <<>> ELSE The({<<x>> \o SetToSeq(S \ {x}) : x \in {CHOOSE y \in S : TRUE}})

\* first row of the unreduced block that ends in row hi
RECURSIVE BlockStart(_, _)
BlockStart(T, hi) == IF hi = 1 \/ T.off_diag[hi - 1] = RZero THEN hi ELSE BlockStart(T, hi - 1)

\* stands for the eigenvalues of a block that has one outside EigCandidates
NoEig == <<0, 0>>

\* the eigenvalues of the blocks that end at or before row hi; an
\* unreduced block has distinct eigenvalues
RECURSIVE BlockEigs(_, _)
BlockEigs(T, hi) ==
    IF hi = 0 THEN <<>>
    ELSE The({The({
        BlockEigs(T, lo - 1) \o (IF Cardinality(roots) = hi - lo + 1 THEN SetToSeq(roots) ELSE <<NoEig>>)
        : roots \in {{x \in EigCandidates : CharPoly(T, lo, hi, x) = RZero}}})
        : lo \in {BlockStart(T, hi)}})

\* eigh_tridiagonal(diag, off_diag, select='i', select_range=(0, k-1),
\* eigvals_only=True): the k smallest eigenvalues in ascending order; the
\* empty list where the call raises (fewer than k rows) and <<NoEig>> where
\* an eigenvalue lies outside EigCandidates
eigh_tridiagonal(T, k) ==
    IF k > Len(T.diag) THEN <<>>
    ELSE The({
        IF \E i \in 1..Len(all) : all[i] = NoEig THEN <<NoEig>>
        ELSE The({Tup([r \in 1..k |-> all[order[r]]]) : order \in {ArgSort(all)}})
        : all \in {BlockEigs(T, Len(T.diag))}})

\* ---- the calls explored ----
MaxLanczosIters == 3

\* an operator M = Q T Q^T with Q orthogonal and T tridiagonal, and the
\* first column of Q as the start vector: every norm the loop takes is
\* then rational
RowsOf(ints, den) == Tup([i \in 1..Len(ints) |-> Tup([j \in 1..Len(ints[i]) |-> Rat(ints[i][j], den)])])
Transpose(A) == Tup([j \in 1..Len(A[1]) |-> Tup([i \in 1..Len(A) |-> A[i][j]])])
MatMul(A, B) == The({Tup([i \in 1..Len(A) |-> Tup([j \in 1..Len(Bt) |-> Dot(A[i], Bt[j])])]) : Bt \in {Transpose(B)}})
TriMatrix(d, e) ==
    Tup([i \in 1..Len(d) |-> Tup([j \in 1..Len(d) |->
        IF i = j THEN RInt(d[i]) ELSE IF j = i + 1 THEN RInt(e[i]) ELSE IF i = j + 1 THEN RInt(e[j]) ELSE RZero])])

LanBases ==
    {RowsOf(<<<<1, 0, 0>>, <<0, 1, 0>>, <<0, 0, 1>>>>, 1),
     RowsOf(<<<<1, 2, 2>>, <<2, 1, -2>>, <<2, -2, 1>>>>, 3),
     RowsOf(<<<<1, 0>>, <<0, 1>>>>, 1),
     RowsOf(<<<<3, 4>>, <<4, -3>>>>, 5)}

LanTriMatrices ==
    {TriMatrix(<<0, 0, 0>>, <<3, 4>>),
     TriMatrix(<<1, 2, 3>>, <<0, 0>>),
     TriMatrix(<<1, 1, 5>>, <<2, 0>>),
     TriMatrix(<<-3, -1, 0>>, <<0, 0>>),
     TriMatrix(<<0, 3>>, <<2>>),
     TriMatrix(<<2, 4>>, <<0>>)}

LanczosInputs ==
    {[M |-> MatMul(MatMul(QT[1], QT[2]), Transpose(QT[1])), n |-> Len(QT[1]), k |-> k, num_iters |-> num_iters,
      eps |-> eps, v_1 |-> Transpose(QT[1])[1]] :
        QT \in {QT \in LanBases \X LanTriMatrices : Len(QT[1]) = Len(QT[2])}, k \in 1..2,
        num_iters \in 0..MaxLanczosIters, eps \in {RZero, Rat(1, 100), Rat(7, 2)}}

\* line 65, one pass of lax.while_loop
lanczos_iteration ==
    /\ lan_pc = "loop"
    /\ tri_diag_cond_func(lan_args, lan_state)
    /\ lan_state' = tri_diag_body_func(lan_args, lan_state)
    /\ lan_iters' = lan_iters + 1
    /\ UNCHANGED <<lan_pc, lan_args, lan_locals, notLan>>

\* lines 65 to 79: the loop is left, the eigenvalues of the tridiagonal
\* matrix are taken, and the process stops in embed() and exit()
lanczos_finish ==
    /\ lan_pc = "loop"
    /\ ~tri_diag_cond_func(lan_args, lan_state)
    /\ lan_locals' = The({[diag |-> T.diag, off_diag |-> T.off_diag, min_k_eigvals |-> eigh_tridiagonal(T, lan_args.k)]
                          : T \in {TriDiagOf(lan_args, lan_state)}})
    /\ lan_pc' = "exited"
    /\ UNCHANGED <<lan_args, lan_state, lan_iters, notLan>>

InitLanczos ==
    /\ lan_args \in LanczosInputs
    /\ lan_state = tri_diag_init_state(lan_args)
    /\ lan_pc = "loop"
    /\ lan_iters = 0
    /\ lan_locals = Unset
    /\ AsmIdle
    /\ BMIdle
    /\ APGDIdle
    /\ ProjIdle
    /\ CgalIdle
    /\ WsIdle

NextLanczos == lanczos_iteration \/ lanczos_finish

SpecLanczos == InitLanczos /\ [][NextLanczos]_vars

\* the loop control of the Lanczos loop as a whole: the passes made are
\* t - 1 and never more than num_iters; every off-diagonal entry but the
\* newest is greater than eps (the loop went on after none that was not);
\* and once the loop is left, at least one pass was made and either the
\* newest off-diagonal entry is not greater than eps or num_iters passes
\* were made
LoopControl ==
    /\ lan_iters = lan_state.t - 1
    /\ lan_iters <= lan_args.num_iters
    /\ \A j \in 2..(lan_state.t - 1) : RLt(lan_args.eps, lan_state.off_diag[j])
    /\ lan_pc = "exited" =>
        /\ lan_iters >= 1
        /\ lan_iters = lan_args.num_iters \/ RLe(lan_state.off_diag[lan_state.t], lan_args.eps)

\* C13 as stated: the Lanczos loop always makes at least one pass, then
\* stops as soon as the newest off-diagonal entry is not greater than eps
\* or num_iters passes were made, and never makes more than num_iters
\* passes
C13_LoopRunsOnceThenStops == lan_pc # "idle" => LoopControl

\* C13 as it holds: with an iteration budget num_iters of at least one, the
\* Lanczos loop makes at least one pass, then stops as soon as the newest
\* off-diagonal entry is not greater than eps or num_iters passes were
\* made, and never makes more than num_iters passes; with a budget of zero
\* it makes no pass
C13_LoopControlWithBudget ==
    lan_pc # "idle" =>
        /\ lan_args.num_iters >= 1 => LoopControl
        /\ lan_args.num_iters = 0 => lan_iters = 0

\* the loop was left after two passes of a budget of three, on an
\* off-diagonal entry not greater than eps
C13_Witness ==
    /\ lan_pc = "exited"
    /\ lan_args.num_iters = 3
    /\ lan_iters = 2
    /\ RLe(lan_state.off_diag[3], lan_args.eps)

\* det(M - x I) for M of two or three rows
ShiftedEntry(M, x, i, j) == IF i = j THEN RSub(M[i][j], x) ELSE M[i][j]
Det2(M, x, r1, r2, c1, c2) ==
    RSub(RMul(ShiftedEntry(M, x, r1, c1), ShiftedEntry(M, x, r2, c2)),
         RMul(ShiftedEntry(M, x, r1, c2), ShiftedEntry(M, x, r2, c1)))
CharDet(M, x) ==
    IF Len(M) = 2 THEN Det2(M, x, 1, 2, 1, 2)
    ELSE RAdd(RSub(RMul(ShiftedEntry(M, x, 1, 1), Det2(M, x, 2, 3, 2, 3)),
                   RMul(ShiftedEntry(M, x, 1, 2), Det2(M, x, 2, 3, 1, 3))),
              RMul(ShiftedEntry(M, x, 1, 3), Det2(M, x, 2, 3, 1, 2)))

\* the eigenvalues of M among EigCandidates, and the k smallest of them in
\* ascending order (the operators of LanczosInputs have n distinct
\* eigenvalues, all of them in EigCandidates)
Spectrum(M) == {x \in EigCandidates : CharDet(M, x) = RZero}
SmallestEigvals(M, k) ==
    The({Tup([r \in 1..k |-> all[ArgSort(all)[r]]]) : all \in {SetToSeq(Spectrum(M))}})

\* a sufficient iteration budget and a tight tolerance
SufficientBudget(p) == p.num_iters >= p.n /\ RLe(p.eps, Rat(1, 100)) /\ p.k <= p.n

\* C14: with a sufficient budget and a tight tolerance, approx_k_min_eigen
\* returns to its caller the k algebraically smallest eigenvalues of M in
\* non-decreasing order (with eigenvectors v such that M v = lambda v)
C14_ReturnsSmallestEigenpairs ==
    (lan_pc \notin {"idle", "loop"} /\ SufficientBudget(lan_args)) =>
        /\ lan_pc = "returned"
        /\ lan_locals.min_k_eigvals = SmallestEigvals(lan_args.M, lan_args.k)

\* ------------------------------------------------------------------------
\* cgal (solver.py), on instances with diagonal C and A(X) = diag(X): X is
\* held as its diagonal, A and its adjoint are the identity on vectors
\* ------------------------------------------------------------------------
RMin(x, y) == IF RLe(x, y) THEN x ELSE y
RMaxOf(v) == The({x \in {v[i] : i \in 1..Len(v)} : \A j \in 1..Len(v) : RLe(v[j], x)})

\* proj_K, the projection onto the box K = [lo, hi]
proj_K(p, v) == Tup([i \in 1..Len(v) |-> RMax(p.K.lo[i], RMin(p.K.hi[i], v[i]))])

\* the loop condition with t <= max_iters in place of t < max_iters
cgal_cond_func_inclusive(p, state) ==
    /\ RLt(p.eps, state.obj_gap) \/ RLt(p.eps, state.infeas_gap)
    /\ state.t <= p.max_iters

cgal_cond_func(p, state) ==
    /\ RLt(p.eps, state.obj_gap) \/ RLt(p.eps, state.infeas_gap)
    /\ state.t < p.max_iters

\* the positions eigh may put first: those of the least diagonal entry
MinEigIdx(grad) == {i \in 1..Len(grad) : \A j \in 1..Len(grad) : RLe(grad[i], grad[j])}

\* body_func, with i the position of the eigenvector eigh returned first
cgal_body_func(p, state, i) ==
    The({The({The({The({The({The({
        [t |-> state.t + 1,
         X |-> X_next,
         y |-> VAdd(state.y, VSub(X_next, proj_K(p, VAdd(X_next, VScale(RDiv(ROne, p.beta), state.y))))),
         obj_gap |-> RDiv(RSub(RSub(surrogate_dual_gap, Dot(state.y, VSub(z, b))),
                               RMul(RDiv(p.beta, RInt(2)), Dot(VSub(z, b), VSub(z, b)))),
                          RMul(p.SCALE_C, p.SCALE_X)),
         infeas_gap |-> RDiv(RMaxOf(Tup([j \in 1..Len(z) |-> RAbs(RSub(z[j], proj_K(p, z)[j]))])), p.SCALE_X)]
        : X_next \in {VAdd(VScale(RSub(ROne, eta), state.X), VScale(eta, X_update_dir))}})
        : surrogate_dual_gap \in {Dot(grad, VSub(state.X, X_update_dir))}, eta \in {Rat(2, state.t + 2)}})
        : X_update_dir \in {Tup([j \in 1..Len(grad) |-> IF j = i THEN ROne ELSE RZero])}})
        : grad \in {VAdd(p.C, VAdd(state.y, VScale(p.beta, VSub(z, b))))}})
        : b \in {proj_K(p, VAdd(z, VScale(RDiv(ROne, p.beta), state.y)))}})
        : z \in {state.X}})

cgal_init_state(p) ==
    [t |-> 0,
     X |-> VScale(p.SCALE_X, ZeroVec(p.n)),
     y |-> ZeroVec(p.n),
     obj_gap |-> RMul(Rat(11, 10), p.eps),
     infeas_gap |-> RMul(Rat(11, 10), p.eps)]

\* ---- the calls explored ----
MaxCgalIters == 3
CgalDim == 2

CgalVecs(entries) == {Tup(f) : f \in [1..CgalDim -> {RInt(e) : e \in entries}]}

CgalInputs ==
    {[n |-> CgalDim, C |-> cost, K |-> [lo |-> K[1], hi |-> K[2]], beta |-> RInt(beta), SCALE_C |-> RInt(sc[1]),
      SCALE_X |-> RInt(sc[2]), eps |-> eps, max_iters |-> max_iters] :
        cost \in CgalVecs({-1, 1}),
        K \in {K \in CgalVecs({0, 1}) \X CgalVecs({1}) : K[1][1] = ROne \/ K[1][2] = RZero},
        beta \in {1, 2}, sc \in {<<1, 1>>, <<2, 1>>, <<1, 2>>},
        eps \in {RZero, Rat(1, 10), RInt(10)}, max_iters \in 0..MaxCgalIters}

\* line 297, one pass of lax.while_loop
cgal_iteration ==
    /\ cgal_pc = "loop"
    /\ cgal_cond_func(cgal_args, cgal_state)
    /\ \E i \in MinEigIdx(VAdd(cgal_args.C, VAdd(cgal_state.y, VScale(cgal_args.beta,
            VSub(cgal_state.X, proj_K(cgal_args, VAdd(cgal_state.X, VScale(RDiv(ROne, cgal_args.beta), cgal_state.y)))))))) :
        cgal_state' = cgal_body_func(cgal_args, cgal_state, i)
    /\ cgal_iters' = cgal_iters + 1
    /\ UNCHANGED <<cgal_pc, cgal_args, notCgal>>

\* lines 297 to 300: the loop is left and the process stops in embed()
\* and exit()
cgal_finish ==
    /\ cgal_pc = "loop"
    /\ ~cgal_cond_func(cgal_args, cgal_state)
    /\ cgal_pc' = "exited"
    /\ UNCHANGED <<cgal_args, cgal_state, cgal_iters, notCgal>>

InitCgal ==
    /\ cgal_args \in CgalInputs
    /\ cgal_state = cgal_init_state(cgal_args)
    /\ cgal_pc = "loop"
    /\ cgal_iters = 0
    /\ AsmIdle
    /\ BMIdle
    /\ APGDIdle
    /\ ProjIdle
    /\ LanIdle
    /\ WsIdle

NextCgal == cgal_iteration \/ cgal_finish

SpecCgal == InitCgal /\ [][NextCgal]_vars

\* C15: the CGAL loop makes a pass exactly while (obj_gap > eps or
\* infeas_gap > eps) and t < max_iters, so it is left only once both gaps
\* are at most eps or t >= max_iters; every pass raises t by exactly one, t
\* never exceeds max_iters, and with eps > 0 and max_iters >= 1 at least
\* one pass is made from the initial state (t = 0, X = 0, y = 0)
C15_CgalLoopControl ==
    /\ [](cgal_pc # "idle" =>
            /\ cgal_state.t = cgal_iters
            /\ cgal_state.t <= cgal_args.max_iters
            /\ cgal_iters = 0 => cgal_state.X = ZeroVec(cgal_args.n) /\ cgal_state.y = ZeroVec(cgal_args.n)
            /\ cgal_pc = "exited" =>
                /\ (RLe(cgal_state.obj_gap, cgal_args.eps) /\ RLe(cgal_state.infeas_gap, cgal_args.eps))
                        \/ cgal_state.t >= cgal_args.max_iters
                /\ (RLt(RZero, cgal_args.eps) /\ cgal_args.max_iters >= 1) => cgal_iters >= 1)
    /\ [][cgal_pc = "loop" =>
            /\ cgal_state' # cgal_state =>
                /\ (RLt(cgal_args.eps, cgal_state.obj_gap) \/ RLt(cgal_args.eps, cgal_state.infeas_gap))
                /\ cgal_state.t < cgal_args.max_iters
                /\ cgal_state'.t = cgal_state.t + 1
            /\ cgal_pc' = "exited" =>
                ~((RLt(cgal_args.eps, cgal_state.obj_gap) \/ RLt(cgal_args.eps, cgal_state.infeas_gap))
                    /\ cgal_state.t < cgal_args.max_iters)]_vars

\* the loop was left on the gaps after at least one pass, before the cap
C15_Witness ==
    /\ cgal_pc = "exited"
    /\ cgal_iters >= 1
    /\ cgal_state.t < cgal_args.max_iters
    /\ RLt(RZero, cgal_args.eps)
    /\ RLe(cgal_state.obj_gap, cgal_args.eps)
    /\ RLe(cgal_state.infeas_gap, cgal_args.eps)

\* ------------------------------------------------------------------------
\* scripts/warm_start_qap_specbm.py, from the end of the first solve to the
\* second call of specbm. A triple is a row <<constraint id, row, col>> of
\* A_indices; ids, rows, columns and positions count from 0 as in the code.
\* ------------------------------------------------------------------------
\* line 64
num_drop == 1

\* reindex without the shift of the blocks
reindex_identity(l, a) == a

\* line 160, with l the block size of the reloaded (larger) instance
reindex(l, a) == a + num_drop * (a \div (l - num_drop))

\* line 172: reindex applied to the row and column of every old triple
ReindexTriples(l, triples) ==
    Tup([i \in 1..Len(triples) |-> <<triples[i][1], reindex(l, triples[i][2]), reindex(l, triples[i][3])>>])

\* an entry of constraint_index_map that np.empty left unwritten
Empty == -1

\* lines 23 to 27, one pass of the loop of fill_constraint_index_map with
\* old_idx inside old_A_indices
fill_pass(old_A_indices, new_A_indices, f) ==
    The({
        IF curr_row[2] = old_row[2] /\ curr_row[3] = old_row[3]
        THEN [f EXCEPT !.constraint_index_map[old_row[1]] = curr_row[1], !.old_idx = @ + 1, !.curr_idx = @ + 1]
        ELSE [f EXCEPT !.curr_idx = @ + 1]
        : old_row \in {old_A_indices[f.old_idx + 1]}, curr_row \in {new_A_indices[f.curr_idx + 1]}})

\* lines 78 to 82 and 183 to 187: the scale factors of an instance with
\* block size l, cost entries C_data and constraint triples A_indices with
\* entries A_data, for m constraints
SumSquaresOf(A_indices, A_data, id) ==
    VSum([i \in 1..Len(A_indices) |-> IF A_indices[i][1] = id THEN RMul(A_data[i], A_data[i]) ELSE RZero])
ScalesOf(l, C_data, A_indices, A_data, m) ==
    [SCALE_X |-> Rat(1, l + 1),
     SCALE_C |-> RDiv(ROne, Norm(C_data)),
     SCALE_A |-> [id \in 0..(m - 1) |-> RDiv(ROne, RSqrt(SumSquaresOf(A_indices, A_data, id)))]]

\* m = b.shape[0]: the ids of the triples are 0..m-1
NumConstraints(A_indices) == A_indices[Len(A_indices)][1] + 1

\* ---- the runs explored ----
MaxNewTriples == 3

\* entries of A_data whose squares add up to a square in every constraint:
\* d, (3d, 4d), (d, 2d, 2d) or (d, d, d, d) for a constraint of one, two,
\* three or four triples
GroupPattern == <<<<1>>, <<3, 4>>, <<1, 2, 2>>, <<1, 1, 1, 1>>>>
DataOf(A_indices, d) ==
    Tup([i \in 1..Len(A_indices) |->
        RInt(d * GroupPattern[Cardinality({j \in 1..Len(A_indices) : A_indices[j][1] = A_indices[i][1]})]
                             [Cardinality({j \in 1..i : A_indices[j][1] = A_indices[i][1]})])])

\* the triple lists of the smaller instance, before re-indexing
OldTripleLists ==
    {<<<<0, 0, 0>>>>,
     <<<<0, 0, 0>>, <<1, 1, 1>>>>,
     <<<<0, 1, 1>>, <<1, 0, 0>>>>,
     <<<<0, 0, 0>>, <<0, 1, 1>>>>}

\* the triple lists of the larger instance: ids 0, 1, ... in order
NewCells == {<<0, 0>>, <<1, 1>>, <<2, 2>>}
NewTripleLists ==
    UNION {{Tup([i \in 1..len |-> <<ids[i], cells[i][1], cells[i][2]>>]) :
                ids \in {f \in [1..len -> 0..(len - 1)] :
                            f[1] = 0 /\ \A i \in 1..(len - 1) : f[i + 1] \in {f[i], f[i] + 1}},
                cells \in [1..len -> NewCells]} : len \in 1..MaxNewTriples}

\* what lines 68 to 154 hand to line 160: the old and new instances, and
\* the results of the first solve in the old scaled space
WsInputs ==
    {[l |-> l, old_A_indices |-> old, old_m |-> NumConstraints(old),
      old_scales |-> ScalesOf(l - num_drop, <<RInt(3), RInt(4)>>, old, DataOf(old, 1), NumConstraints(old)),
      A_indices |-> new, A_data |-> DataOf(new, 1), C_data |-> <<RInt(6), RInt(8)>>, m |-> NumConstraints(new),
      X |-> X, P |-> <<ROne>>,
      y |-> [id \in 0..(NumConstraints(old) - 1) |-> RInt(id + 1)],
      z |-> [id \in 0..(NumConstraints(old) - 1) |-> RInt(2 * id + 2)],
      primal_obj |-> RInt(3), tr_X |-> RInt(2)] :
        l \in {2, 3}, old \in OldTripleLists, new \in NewTripleLists, X \in {<<>>, <<ROne>>}}

\* lines 160 to 173: X and P are divided by the old SCALE_X, the old
\* triples are re-indexed and constraint_index_map is allocated
ws_reindex ==
    /\ ws_pc = "reindex"
    /\ ws_vals' = [ws_vals EXCEPT !.X = Tup([i \in 1..Len(@) |-> RDiv(@[i], ws_vals.SCALE_X)]),
                                  !.P = Tup([i \in 1..Len(@) |-> RDiv(@[i], ws_vals.SCALE_X)])]
    /\ ws_fill' = [old_A_indices |-> ReindexTriples(ws_args.l, ws_args.old_A_indices),
                   constraint_index_map |-> [id \in 0..(ws_args.old_m - 1) |-> Empty],
                   old_idx |-> 0, curr_idx |-> 0]
    /\ ws_pc' = "fill"
    /\ UNCHANGED <<ws_args, notWs>>

\* lines 22 to 27: one pass of the loop while old_idx is inside
\* old_A_indices
ws_fill_pass ==
    /\ ws_pc = "fill"
    /\ ws_fill.curr_idx < Len(ws_args.A_indices)
    /\ ws_fill.old_idx < Len(ws_fill.old_A_indices)
    /\ ws_fill' = fill_pass(ws_fill.old_A_indices, ws_args.A_indices, ws_fill)
    /\ UNCHANGED <<ws_pc, ws_args, ws_vals, notWs>>

\* lines 22 to 27: one pass of the loop once every old triple is matched.
\* old_A_indices[old_idx] then lies behind the array, and numba's compiled
\* code reads it without a bounds check: the row read is whatever the
\* memory holds. It differs from the current row, or it agrees with it and
\* line 26 writes the entry of the map at the id read, or behind the map.
ws_fill_pass_behind_old ==
    /\ ws_pc = "fill"
    /\ ws_fill.curr_idx < Len(ws_args.A_indices)
    /\ ws_fill.old_idx >= Len(ws_fill.old_A_indices)
    /\ \/ /\ ws_fill' = [ws_fill EXCEPT !.curr_idx = @ + 1]
          /\ UNCHANGED ws_pc
       \/ \E id \in 0..(ws_args.old_m - 1) :
            /\ ws_fill' = [ws_fill EXCEPT !.constraint_index_map[id] = ws_args.A_indices[ws_fill.curr_idx + 1][1],
                                          !.old_idx = @ + 1, !.curr_idx = @ + 1]
            /\ UNCHANGED ws_pc
       \/ /\ ws_pc' = "memory_corrupted"
          /\ UNCHANGED ws_fill
    /\ UNCHANGED <<ws_args, ws_vals, notWs>>

\* jnp.zeros((m,)).at[index].set(values): position j holds the value of
\* the entry winner[j] of index that points at it, and zero if none does
\* (winner[j] = -1); indices outside 0..m-1 are dropped
Scatter(m, winner, values) == [j \in 0..(m - 1) |-> IF winner[j] = -1 THEN RZero ELSE values[winner[j]]]
Winners(m, index) ==
    {w \in [0..(m - 1) -> {-1} \cup DOMAIN index] :
        \A j \in 0..(m - 1) : IF w[j] = -1 THEN \A id \in DOMAIN index : index[id] # j ELSE index[w[j]] = j}

\* what the entries of the map may hold at line 177: the written ones
\* their value, the unwritten ones whatever np.empty left there (an id of
\* the new instance, or a number that is none: m stands for these)
MapsRead(m, map) ==
    {index \in [DOMAIN map -> 0..m] : \A id \in DOMAIN map : map[id] # Empty => index[id] = map[id]}

\* lines 174 to 178: fill_constraint_index_map returns, y is scattered as
\* it is, z is divided by the old SCALE_A and SCALE_X and scattered
ws_scatter ==
    /\ ws_pc = "fill"
    /\ ws_fill.curr_idx = Len(ws_args.A_indices)
    /\ \E index \in MapsRead(ws_args.m, ws_fill.constraint_index_map) :
        \E winner \in Winners(ws_args.m, index) :
            ws_vals' = [ws_vals EXCEPT
                !.index = index,
                !.y = Scatter(ws_args.m, winner, ws_vals.y),
                !.z = Scatter(ws_args.m, winner,
                              [id \in 0..(ws_args.old_m - 1) |->
                                  RDiv(RDiv(ws_vals.z[id], ws_vals.SCALE_A[id]), ws_vals.SCALE_X)])]
    /\ ws_pc' = "rescale"
    /\ UNCHANGED <<ws_args, ws_fill, notWs>>

\* lines 180 to 200: primal_obj and tr_X are unscaled, the scale factors
\* of the new instance are computed, and X, P, z, primal_obj and tr_X are
\* multiplied by them
ws_rescale ==
    /\ ws_pc = "rescale"
    /\ ws_vals' = The({
            [ws_vals EXCEPT
                !.SCALE_X = new.SCALE_X, !.SCALE_C = new.SCALE_C, !.SCALE_A = new.SCALE_A,
                !.X = Tup([i \in 1..Len(@) |-> RMul(@[i], new.SCALE_X)]),
                !.P = Tup([i \in 1..Len(@) |-> RMul(@[i], new.SCALE_X)]),
                !.z = [j \in 0..(ws_args.m - 1) |-> RMul(@[j], new.SCALE_X)],
                !.primal_obj = RMul(RDiv(@, RMul(ws_vals.SCALE_X, ws_vals.SCALE_C)), RMul(new.SCALE_C, new.SCALE_X)),
                !.tr_X = RMul(RDiv(@, ws_vals.SCALE_X), new.SCALE_X)]
            : new \in {ScalesOf(ws_args.l, ws_args.C_data, ws_args.A_indices, ws_args.A_data, ws_args.m)}})
    /\ ws_pc' = "second_call"
    /\ UNCHANGED <<ws_args, ws_fill, notWs>>

InitWs ==
    /\ ws_args \in WsInputs
    /\ ws_pc = "reindex"
    /\ ws_fill = Unset
    /\ ws_vals = [X |-> ws_args.X, P |-> ws_args.P, y |-> ws_args.y, z |-> ws_args.z,
                  primal_obj |-> ws_args.primal_obj, tr_X |-> ws_args.tr_X, index |-> <<>>,
                  SCALE_X |-> ws_args.old_scales.SCALE_X, SCALE_C |-> ws_args.old_scales.SCALE_C,
                  SCALE_A |-> ws_args.old_scales.SCALE_A]
    /\ AsmIdle
    /\ BMIdle
    /\ APGDIdle
    /\ ProjIdle
    /\ LanIdle
    /\ CgalIdle

NextWs == ws_reindex \/ ws_fill_pass \/ ws_fill_pass_behind_old \/ ws_scatter \/ ws_rescale

SpecWs == InitWs /\ [][NextWs]_vars

\* the indices over which reindex is examined
MaxIndex == 12

\* C19: with num_drop = 1 and l the new block size, reindex sends every
\* old index a = q*(l-1) + r (block q, offset 0 <= r < l-1) to q*l + r, is
\* strictly increasing, and never yields an index at offset l-1 of its
\* block; line 172 puts these values into the rows and columns of the old
\* triples
C19_ReindexShiftsBlocks ==
    ws_pc # "idle" =>
        /\ \A a \in 0..MaxIndex :
            /\ reindex(ws_args.l, a) = (a \div (ws_args.l - 1)) * ws_args.l + (a % (ws_args.l - 1))
            /\ reindex(ws_args.l, a) % ws_args.l # ws_args.l - 1
            /\ \A a2 \in (a + 1)..MaxIndex : reindex(ws_args.l, a) < reindex(ws_args.l, a2)
        /\ ws_pc # "reindex" =>
            \A i \in 1..Len(ws_args.old_A_indices) : \A c \in 2..3 :
                ws_fill.old_A_indices[i][c] =
                    (ws_args.old_A_indices[i][c] \div (ws_args.l - 1)) * ws_args.l
                        + (ws_args.old_A_indices[i][c] % (ws_args.l - 1))

\* the old triples were re-indexed and an index of a later block moved
C19_Witness ==
    /\ ws_pc = "fill"
    /\ \E i \in 1..Len(ws_args.old_A_indices) : ws_fill.old_A_indices[i][2] > ws_args.old_A_indices[i][2]

\* the re-indexed old triples occur within the new triples in the same
\* relative order: some strictly increasing choice of positions carries
\* every old triple to a new triple of the same row and column, and old
\* triples of one constraint, and only these, to new triples of one
\* constraint
Embeddings(old, new) ==
    {e \in [1..Len(old) -> 1..Len(new)] :
        /\ \A i \in 1..(Len(old) - 1) : e[i] < e[i + 1]
        /\ \A i \in 1..Len(old) : old[i][2] = new[e[i]][2] /\ old[i][3] = new[e[i]][3]
        /\ \A i, j \in 1..Len(old) : (old[i][1] = old[j][1]) <=> (new[e[i]][1] = new[e[j]][1])}
OccursWithin(old, new) == Embeddings(old, new) # {}

\* the old constraint id is mapped to a new constraint that has a triple
\* at the row and column of one of its own
MatchesByRowCol(old, new, id, new_id) ==
    \E i \in 1..Len(old) : \E j \in 1..Len(new) :
        /\ old[i][1] = id
        /\ new[j][1] = new_id
        /\ old[i][2] = new[j][2]
        /\ old[i][3] = new[j][3]

\* y and z after line 178 are of size m, hold the old y and the old
\* unscaled z at the mapped positions and zero at every other
ScatteredThrough(index) ==
    /\ DOMAIN ws_vals.y = 0..(ws_args.m - 1)
    /\ DOMAIN ws_vals.z = 0..(ws_args.m - 1)
    /\ \A id \in 0..(ws_args.old_m - 1) :
        /\ index[id] \in 0..(ws_args.m - 1)
        /\ ws_vals.y[index[id]] = ws_args.y[id]
        /\ ws_vals.z[index[id]] =
            RDiv(RDiv(ws_args.z[id], ws_args.old_scales.SCALE_A[id]), ws_args.old_scales.SCALE_X)
    /\ \A j \in 0..(ws_args.m - 1) :
        (\A id \in 0..(ws_args.old_m - 1) : index[id] # j) => ws_vals.y[j] = RZero /\ ws_vals.z[j] = RZero

\* C16: when the re-indexed old triple list occurs within the new triple
\* list in the same relative order, fill_constraint_index_map gives every
\* old constraint id the id of the new constraint whose (row, col) matches,
\* and y and z scattered through that map are vectors of the new size m
\* with the old values at the mapped positions and zero elsewhere
C16_MapAndScatter ==
    (ws_pc \in {"rescale", "memory_corrupted"} /\ OccursWithin(ws_fill.old_A_indices, ws_args.A_indices)) =>
        /\ ws_pc = "rescale"
        /\ \A id \in 0..(ws_args.old_m - 1) :
            /\ ws_fill.constraint_index_map[id] # Empty
            /\ MatchesByRowCol(ws_fill.old_A_indices, ws_args.A_indices, id, ws_fill.constraint_index_map[id])
        /\ ScatteredThrough(ws_fill.constraint_index_map)

\* C17: when some old triple finds no (row, col) match in the new triple
\* list (or the lists are not in the same relative order), the re-indexing
\* fails with an assertion: y and z are never scattered through a map
\* that the walk left with unmatched triples or unwritten entries
C17_MismatchRejected ==
    ws_pc \in {"rescale", "second_call"} =>
        /\ ws_fill.old_idx >= Len(ws_fill.old_A_indices)
        /\ \A id \in 0..(ws_args.old_m - 1) : ws_fill.constraint_index_map[id] # Empty

\* a quantity that carries the factor old_factor in the old scaled space,
\* taken to the new scaled space where it carries new_factor
Rescaled(value, old_factor, new_factor) == RMul(RDiv(value, old_factor), new_factor)

\* C18: every quantity carried from the first solve into the second (X or
\* P, y, z, primal_obj, tr_X) is divided by the old scale factors that
\* apply to it and multiplied by the new ones: at the second call of specbm
\* X, P and tr_X carry the new SCALE_X, primal_obj the new SCALE_C * SCALE_X,
\* z the new SCALE_X * SCALE_A of its constraint as the scaled b does, and
\* y the factor SCALE_C / SCALE_A of the duals of the new scaled instance
\* (stated for the runs in which every old constraint was matched with a
\* new constraint of its own)
C18_NoMixedScales ==
    (/\ ws_pc = "second_call"
     /\ ws_fill.old_idx = Len(ws_fill.old_A_indices)
     /\ \A id \in 0..(ws_args.old_m - 1) : ws_fill.constraint_index_map[id] \in 0..(ws_args.m - 1)
     /\ \A id, id2 \in 0..(ws_args.old_m - 1) :
            id # id2 => ws_fill.constraint_index_map[id] # ws_fill.constraint_index_map[id2]) =>
        /\ \A i \in 1..Len(ws_args.X) :
            ws_vals.X[i] = Rescaled(ws_args.X[i], ws_args.old_scales.SCALE_X, ws_vals.SCALE_X)
        /\ \A i \in 1..Len(ws_args.P) :
            ws_vals.P[i] = Rescaled(ws_args.P[i], ws_args.old_scales.SCALE_X, ws_vals.SCALE_X)
        /\ ws_vals.tr_X = Rescaled(ws_args.tr_X, ws_args.old_scales.SCALE_X, ws_vals.SCALE_X)
        /\ ws_vals.primal_obj =
            Rescaled(ws_args.primal_obj, RMul(ws_args.old_scales.SCALE_C, ws_args.old_scales.SCALE_X),
                     RMul(ws_vals.SCALE_C, ws_vals.SCALE_X))
        /\ \A id \in 0..(ws_args.old_m - 1) :
            /\ ws_vals.z[ws_fill.constraint_index_map[id]] =
                Rescaled(ws_args.z[id], RMul(ws_args.old_scales.SCALE_X, ws_args.old_scales.SCALE_A[id]),
                         RMul(ws_vals.SCALE_X, ws_vals.SCALE_A[ws_fill.constraint_index_map[id]]))
            /\ ws_vals.y[ws_fill.constraint_index_map[id]] =
                Rescaled(ws_args.y[id], RDiv(ws_args.old_scales.SCALE_C, ws_args.old_scales.SCALE_A[id]),
                         RDiv(ws_vals.SCALE_C, ws_vals.SCALE_A[ws_fill.constraint_index_map[id]]))

\* C20: warm_start_add_constraint keeps every constraint of the old state
\* at its id (the old triples stay in front, the added ones have ids from
\* old_m on), and builds y of the new size m with the old unscaled duals
\* times (new SCALE_X / old SCALE_X) in its first old_m entries and zero
\* in every entry of an added constraint
C20_WarmStartDual ==
    (asm_call.op = "warm_start_add_constraint" /\ asm_call.err = "none") =>
        /\ Len(sdp_state.b) >= asm_call.unscaled.m
        /\ \A r \in 1..Len(asm_call.unscaled.A_indices) : sdp_state.A_indices[r] = asm_call.unscaled.A_indices[r]
        /\ \A r \in (Len(asm_call.unscaled.A_indices) + 1)..Len(sdp_state.A_indices) :
            sdp_state.A_indices[r][1] >= asm_call.unscaled.m
        /\ DOMAIN asm_call.y = 1..Len(sdp_state.b)
        /\ sdp_state.y = asm_call.y
        /\ \A i \in 1..Len(sdp_state.b) :
            asm_call.y[i] = IF i <= asm_call.unscaled.m
                            THEN RMul(asm_call.unscaled.y[i], RDiv(sdp_state.SCALE_X, asm_call.unscaled.SCALE_X))
                            ELSE RZero

\* a warm start carried duals other than zero into a larger state
C20_Witness ==
    /\ asm_call.op = "warm_start_add_constraint"
    /\ asm_call.err = "none"
    /\ Len(sdp_state.b) > asm_call.unscaled.m
    /\ \E i \in 1..asm_call.unscaled.m : asm_call.unscaled.y[i] # RZero /\ sdp_state.y[i] # asm_call.unscaled.y[i]

\* C21: after cold_start_add_constraint or warm_start_add_constraint, for
\* any orthogonality pairs and any hyperplane groups, b and b_ineq_mask
\* both have m entries and every constraint id in A_indices, the ids of
\* the mixed constraints recorded in mixed_var_map included, lies in
\* 0..m-1, so that every id owns an entry of b
C21_ConstraintIdsWithinM ==
    (asm_call.op \in {"cold_start_add_constraint", "warm_start_add_constraint"} /\ asm_call.err = "none") =>
        /\ Len(sdp_state.b) = Len(sdp_state.b_ineq_mask)
        /\ \A r \in 1..Len(sdp_state.A_indices) : sdp_state.A_indices[r][1] \in 0..(Len(sdp_state.b) - 1)
        /\ \A g \in 1..Len(mixed_var_map) : \A r \in 1..Len(mixed_var_map[g]) :
            mixed_var_map[g][r] \in 0..(Len(sdp_state.b) - 1)

\* C22: the tridiagonal eigenproblem solved after the Lanczos loop is
\* built only from entries written by executed passes: after j passes
\* (early exit on off_diag <= eps included) the diag and off_diag handed to
\* eigh_tridiagonal have j and j - 1 entries, namely diag[1..j] and
\* off_diag[2..j] of the final state, and none of the rows no pass wrote
C22_TridiagonalFromExecutedPasses ==
    lan_pc = "exited" =>
        /\ Len(lan_locals.diag) = lan_iters
        /\ lan_iters >= 1 => Len(lan_locals.off_diag) = lan_iters - 1
        /\ \A i \in 1..Len(lan_locals.diag) : i <= lan_iters /\ lan_locals.diag[i] = lan_state.diag[i]
        /\ \A i \in 1..Len(lan_locals.off_diag) : i + 1 <= lan_iters /\ lan_locals.off_diag[i] = lan_state.off_diag[i + 1]

\* C23: in fill_constraint_index_map the cursor old_idx is a valid index
\* of old_A_indices (0 <= old_idx < number of old triples) at every read
\* of old_A_indices[old_idx], that is at the start of every pass of the
\* loop over the new triples, for every pair of old and new triple lists
C23_OldIdxWithinOldTriples ==
    (ws_pc = "fill" /\ ws_fill.curr_idx < Len(ws_args.A_indices)) =>
        (0 <= ws_fill.old_idx /\ ws_fill.old_idx < Len(ws_fill.old_A_indices))

\* the gaps of an iterate (X, y) as lines 259 to 270 compute them: those a
\* pass of body_func started at that iterate would report, for each
\* eigenvector eigh may return first
GapsOfIterate(p, state) ==
    {The({[obj_gap |-> next.obj_gap, infeas_gap |-> next.infeas_gap] : next \in {cgal_body_func(p, state, i)}})
        : i \in MinEigIdx(VAdd(p.C, VAdd(state.y, VScale(p.beta,
                VSub(state.X, proj_K(p, VAdd(state.X, VScale(RDiv(ROne, p.beta), state.y))))))))}

\* C24: whenever the CGAL loop stops, after some pass and before the cap
\* max_iters, because both gaps are at most eps, the obj_gap and
\* infeas_gap stored in the final state are the gaps of the X and y stored
\* in that same state (the returned iterate), not those of an earlier
\* iterate
C24_StoredGapsOfStoredIterate ==
    (/\ cgal_pc = "exited"
     /\ cgal_iters >= 1
     /\ cgal_state.t < cgal_args.max_iters
     /\ RLe(cgal_state.obj_gap, cgal_args.eps)
     /\ RLe(cgal_state.infeas_gap, cgal_args.eps)) =>
        [obj_gap |-> cgal_state.obj_gap, infeas_gap |-> cgal_state.infeas_gap] \in GapsOfIterate(cgal_args, cgal_state)

\* C25: in every state reached from initialize_state by any sequence of
\* cold_start_add_constraint and warm_start_add_constraint calls, for every
\* variable index i < n the constraint with id i is the diagonal-equals-one
\* equality constraint of variable i: its only triples are (i, i, i) and
\* its entry of b_ineq_mask is 0, so that SCALE_A indexed by a variable
\* index addresses that variable's diagonal constraint
C25_VariableIndexIsDiagonalConstraintId ==
    asm_pc = "ready" =>
        \A i \in 0..(sdp_state.C.n - 1) :
            /\ TriplesOf(sdp_state.A_indices, i) # {}
            /\ \A r \in TriplesOf(sdp_state.A_indices, i) : sdp_state.A_indices[r] = <<i, i, i>>
            /\ sdp_state.b_ineq_mask[i + 1] = 0

\* exactly one primal representation: a dense X with Omega = P = None, or
\* a sketch (Omega and P both set) with X = None
DenseMode(st) == st.X # None /\ st.Omega = None /\ st.P = None
SketchMode(st) == st.X = None /\ st.Omega # None /\ st.P # None

\* C26: every SDPState produced by initialize_state,
\* cold_start_add_constraint or warm_start_add_constraint (the latter
\* applied to a state holding exactly one primal representation) holds
\* exactly one primal representation, dense or sketch, with z, tr_X and
\* primal_obj defined in both; the constructors choose the dense mode
\* exactly for sketch_dim = -1, and warm_start_add_constraint keeps the
\* mode of the old state and never meets z, tr_X or primal_obj unassigned
C26_OnePrimalRepresentation ==
    /\ asm_pc = "ready" =>
        /\ DenseMode(sdp_state) \/ SketchMode(sdp_state)
        /\ sdp_state.z = Matrix(Len(sdp_state.b), 1, sdp_state.z.val) /\ sdp_state.z # None
        /\ sdp_state.tr_X \in {"0", "trace"}
        /\ sdp_state.primal_obj \in {"0", "<C,X>"}
    /\ (asm_pc = "ready" /\ asm_call.op \in {"initialize_state", "cold_start_add_constraint"}) =>
        (DenseMode(sdp_state) <=> asm_call.sketch_dim = -1)
    /\ asm_call.op = "warm_start_add_constraint" =>
        /\ DenseMode(asm_call.old) \/ SketchMode(asm_call.old)
        /\ asm_call.err # "NameError"
        /\ asm_call.err = "none" =>
            /\ DenseMode(sdp_state) <=> DenseMode(asm_call.old)
            /\ SketchMode(sdp_state) <=> SketchMode(asm_call.old)
            /\ sdp_state.z.val = "A(X)"

\* a warm start took a sketch state to a larger sketch state
C26_Witness ==
    /\ asm_pc = "ready"
    /\ asm_call.op = "warm_start_add_constraint"
    /\ asm_call.err = "none"
    /\ SketchMode(asm_call.old)
    /\ SketchMode(sdp_state)
    /\ sdp_state.P.rows = asm_call.old.n + 1

\* the rows and entries the loop condition (line 30) and the loop body
\* (lines 38 to 48) read or write in a state: V[t-1], V[t], V[t+1] and the
\* rows V[i] the fori_loop(1, t+1, ...) of the reorthogonalization visits,
\* diag[t], off_diag[t] and off_diag[t+1]
RECURSIVE ForiLoopIndices(_, _)
ForiLoopIndices(i, upper) == IF i >= upper THEN {} ELSE {i} \cup ForiLoopIndices(i + 1, upper)
CondIndices(state) == [off_diag |-> {state.t}]
BodyIndices(state) ==
    [V |-> {state.t - 1, state.t, state.t + 1} \cup ForiLoopIndices(1, state.t + 1),
     diag |-> {state.t},
     off_diag |-> {state.t, state.t + 1}]

\* C27: with V of num_iters + 2 rows, diag of num_iters + 1 entries and
\* off_diag of num_iters + 2 entries, every read and write of the loop
\* condition and of the loop body uses an index inside its buffer for
\* every reachable t, and the pass at t orthogonalizes the new vector
\* against every stored basis vector V[1..t]: every row written with a
\* norm other than zero is orthogonal to the rows before it
C27_LanczosBufferSafety ==
    lan_pc = "loop" =>
        /\ DOMAIN lan_state.V = 0..(lan_args.num_iters + 1)
        /\ DOMAIN lan_state.diag = 0..lan_args.num_iters
        /\ DOMAIN lan_state.off_diag = 0..(lan_args.num_iters + 1)
        /\ CondIndices(lan_state).off_diag \subseteq DOMAIN lan_state.off_diag
        /\ tri_diag_cond_func(lan_args, lan_state) =>
            /\ BodyIndices(lan_state).V \subseteq DOMAIN lan_state.V
            /\ BodyIndices(lan_state).diag \subseteq DOMAIN lan_state.diag
            /\ BodyIndices(lan_state).off_diag \subseteq DOMAIN lan_state.off_diag
            /\ ForiLoopIndices(1, lan_state.t + 1) = 1..lan_state.t
        /\ \A j \in 2..lan_state.t : lan_state.off_diag[j] # RZero =>
            \A i \in 1..(j - 1) : Dot(lan_state.V[j], lan_state.V[i]) = RZero

\* the last pass of a budget of two or more was made and wrote the last
\* row of V and the last entry of off_diag, which the loop condition then
\* reads
C27_Witness ==
    /\ lan_pc = "loop"
    /\ lan_args.num_iters >= 2
    /\ lan_iters = lan_args.num_iters
    /\ lan_state.t = lan_args.num_iters + 1
    /\ lan_state.off_diag[lan_args.num_iters + 1] # RZero
    /\ lan_state.V[lan_args.num_iters + 1] # ZeroVec(lan_args.n)

====
